---- MODULE Spec2Model ----
(***************************************************************************)
(* Verification model of the MDPC CSV validation dashboard:                *)
(*   - the asset list of App.tsx (add asset, update progress),             *)
(*   - the record store (storageService) over browser storage,             *)
(*   - the draft autosave controller of SystemList.tsx,                    *)
(*   - the Excel tab, the SOP list and the protocol of SystemList.tsx,     *)
(*   - the capability gateway (geminiService.ts).                          *)
(* The specifications share the variables: SpecAssets, SpecStore,          *)
(* SpecDraft (one user fills in and submits the forms), SpecSession (two   *)
(* users log in and out), SpecSheet (an upload and its corrected file),    *)
(* SpecPanel (selection, tabs, SOP upload and spreadsheet upload),         *)
(* SpecGateway (calls of the gateway functions), SpecProtocols             *)
(* (generation and translation of protocols), SpecSops (upload and         *)
(* deletion of SOPs), SpecAuth (the authentication service), SpecSubmit    *)
(* (the inspection form saved complete and incomplete), SpecParams         *)
(* (the inspection form under several assets), SpecWrites (store writes    *)
(* that wait together), SpecUploads (one upload after another) and         *)
(* SpecExcelTab (the Excel tab with two software assets); each leaves the  *)
(* rest of the state unchanged.                                            *)
(***************************************************************************)
EXTENDS Integers, Sequences, FiniteSets, Bags, TLC

VARIABLES
  systems,            \* App.tsx: useState<PharmaSystem[]>(INITIAL_SYSTEMS)
  inspectionsStore,   \* localStorage[INSPECTIONS_KEY]   (list, in stored order)
  reportsStore,       \* localStorage[EXCEL_REPORTS_KEY] (list, in stored order)
  sopsStore,          \* localStorage[SOPS_KEY]          (list, in stored order)
  drafts,             \* localStorage[USER_DRAFTS_KEY]   (user -> form key -> draft)
  calls,              \* storageService calls that are waiting in their delay(...) (a bag)
  now,                \* wall clock (calendar day, YYYYMMDD)
  currentUser,        \* App.tsx: currentUser (NoUser when logged out)
  mounted,            \* whether a SystemList instance is rendered
  newInspection,      \* SystemList: inspection form state
  isAddingInspection, \* SystemList: inspection form open
  newSOP,             \* SystemList: SOP form state
  isUploadingSOP,     \* SystemList: SOP form open
  isAnalyzingSOP,     \* SystemList: SOP upload in progress (disables its button)
  timers,             \* pending setTimeout callbacks of the autosave effects
  handlers,           \* submit handlers suspended at an await
  quiet,              \* form key -> ms elapsed since the form was last touched (capped)
  writes,             \* form key -> saveUserDraft writes in the current burst of touches
  edits,              \* form key -> whether the last touch followed another within the window
  discarded,          \* users who logged out with "No, Discard" and have not logged in since
  submitted,          \* form key -> the submission of the form the user made last
                      \* (NoSubmission once the user touches the form again)
  selectedSystem,     \* SystemList: selectedSystem (NoSelection for null)
  activeTab,          \* SystemList: activeTab
  sops,               \* SystemList: sops, the SOP list last loaded into the component
  currentExcelFile,   \* SystemList: currentExcelFile (Null for null)
  originalExcelData,  \* SystemList: originalExcelData (Null for null)
  excelResult,        \* SystemList: excelResult (Null for null)
  isAnalyzingExcel,   \* SystemList: isAnalyzingExcel (disables the file input)
  excelHistory,       \* SystemList: excelHistory, the reports last loaded into the component
  loadingId,          \* SystemList: loadingId (NoSelection for null)
  aiProtocols,        \* SystemList: aiProtocols, asset id -> protocol text
  inflight,           \* handlers suspended in a FileReader or at a gateway call
  returned,           \* what the gateway call that resolved last gave its caller
  written,            \* the file XLSX.writeFile produced last (Null before)
  downloadRequest,    \* what the last click on "Download Corrected" did: whether an
                      \* input was missing, the alert() shown, whether a file was written
  usersStore,         \* localStorage[USERS_KEY]        (Null while the key is absent,
                      \* else the item that holds the list of users)
  sessionStore,       \* localStorage[CURRENT_USER_KEY] (Null while the key is absent)
  alerted             \* the text of the alert() dialog shown last ("" before any)

vars == << systems, inspectionsStore, reportsStore, sopsStore, drafts, calls,
           now, currentUser, mounted, newInspection,
           isAddingInspection, newSOP, isUploadingSOP, isAnalyzingSOP, timers,
           handlers, quiet, writes, edits, discarded, submitted,
           selectedSystem, activeTab, sops, currentExcelFile, originalExcelData,
           excelResult, isAnalyzingExcel, excelHistory, loadingId, aiProtocols, inflight,
           returned, written, downloadRequest, usersStore, sessionStore, alerted >>

assetVars == << systems >>
storeVars == << inspectionsStore, reportsStore, sopsStore, calls, now >>
uiVars    == << currentUser, mounted, newInspection, isAddingInspection, newSOP,
                isUploadingSOP, isAnalyzingSOP, timers, handlers, quiet, writes,
                edits, discarded, submitted >>
panelVars == << selectedSystem, activeTab, sops >>
excelVars == << currentExcelFile, originalExcelData, excelResult,
                isAnalyzingExcel, excelHistory, written, downloadRequest >>
aiVars    == << loadingId, aiProtocols, inflight, returned >>
browserVars == << usersStore, sessionStore, alerted >>

(***************************************************************************)
(* Sequence helpers                                                        *)
(***************************************************************************)
Range(s) == { s[i] : i \in 1..Len(s) }

\* number of positions of s holding x
Count(s, x) == Cardinality({ i \in 1..Len(s) : s[i] = x })

(***************************************************************************)
(* Assets (App.tsx, SystemForm)                                            *)
(***************************************************************************)
COMPLIANT   == "Compliant"
IN_PROGRESS == "In Progress"
DEVIATION   == "Deviation/Non-Compliant"
NOT_STARTED == "Not Started"

WATER_SYSTEM  == "Water System (WFI/PW)"
HVAC          == "HVAC / Air Handling"
LAB_EQUIPMENT == "Lab Equipment (HPLC/TOC)"
MONITORING    == "Env. Monitoring (Fridge/Sensors)"
SOFTWARE      == "GAMP 5 Software"

INITIAL_SYSTEMS ==
  << [id |-> "1", type |-> WATER_SYSTEM,  status |-> IN_PROGRESS, progress |-> 65],
     [id |-> "2", type |-> LAB_EQUIPMENT, status |-> COMPLIANT,   progress |-> 100],
     [id |-> "3", type |-> HVAC,          status |-> DEVIATION,   progress |-> 30],
     [id |-> "4", type |-> MONITORING,    status |-> IN_PROGRESS, progress |-> 45],
     [id |-> "5", type |-> SOFTWARE,      status |-> COMPLIANT,   progress |-> 95] >>

\* bound: assets the user adds in one session
MaxAdded == 1

\* ids Date.now().toString() can give a new asset (two adds may get the same)
NewIds == { "1700000000000", "1700000000001" }

\* categories chosen in the add-asset form
NewTypes == { WATER_SYSTEM, SOFTWARE }

\* progress values handed to handleUpdateProgress
ProgressInputs == { 0, 50, 100 }

\* SystemForm.handleSubmit: the asset handed to onAdd
NewSystem(id, type) ==
  [id |-> id, type |-> type, status |-> NOT_STARTED, progress |-> 0]

\* (a status rule without the branch for progress 100)
NewStatusWithout100(sys, newProgress) ==
  IF newProgress > 0 /\ newProgress < 100
    THEN IF sys.status # DEVIATION THEN IN_PROGRESS ELSE sys.status
    ELSE IF newProgress = 0 THEN NOT_STARTED ELSE sys.status

\* handleUpdateProgress: the status an asset gets with its new progress
NewStatus(sys, newProgress) ==
  IF newProgress = 100 THEN COMPLIANT
  ELSE IF newProgress > 0 /\ newProgress < 100
    THEN IF sys.status # DEVIATION THEN IN_PROGRESS ELSE sys.status
    ELSE IF newProgress = 0 THEN NOT_STARTED ELSE sys.status

\* App.handleAddSystem(newSystem) with the asset built by SystemForm.handleSubmit
handleAddSystem(id, type) ==
  /\ Len(systems) < Len(INITIAL_SYSTEMS) + MaxAdded
  /\ systems' = << NewSystem(id, type) >> \o systems
  /\ UNCHANGED << browserVars, panelVars, excelVars, aiVars, storeVars, drafts, uiVars >>

\* App.handleUpdateProgress(id, newProgress)
handleUpdateProgress(id, newProgress) ==
  /\ systems' = [ i \in 1..Len(systems) |->
                    IF systems[i].id = id
                      THEN [systems[i] EXCEPT !.progress = newProgress,
                                              !.status = NewStatus(systems[i], newProgress)]
                      ELSE systems[i] ]
  /\ UNCHANGED << browserVars, panelVars, excelVars, aiVars, storeVars, drafts, uiVars >>

(***************************************************************************)
(* Calendar: a day is the integer YYYYMMDD, so that the order of the       *)
(* integers is the order of the ISO date strings and of Date.getTime().    *)
(* The clock has day resolution; local time zone is taken to be UTC.       *)
(***************************************************************************)
Year(d)  == d \div 10000
Month(d) == (d \div 100) % 100
Day(d)   == d % 100
MkDate(y, m, d) == y * 10000 + m * 100 + d

IsLeap(y) == (y % 4 = 0 /\ y % 100 # 0) \/ y % 400 = 0

DaysInMonth(y, m) ==
  IF m = 2 THEN (IF IsLeap(y) THEN 29 ELSE 28)
  ELSE IF m \in {4, 6, 9, 11} THEN 30 ELSE 31

NextDay(d) ==
  IF Day(d) < DaysInMonth(Year(d), Month(d)) THEN d + 1
  ELSE IF Month(d) < 12 THEN MkDate(Year(d), Month(d) + 1, 1)
       ELSE MkDate(Year(d) + 1, 1, 1)

RECURSIVE DayAfter(_, _)
DayAfter(d, n) == IF n = 0 THEN d ELSE DayAfter(NextDay(d), n - 1)

\* the day the session starts on
StartDay == 20230829

\* bound: midnights that pass during the session
MaxDays == 1

\* dates typed into the inspection form (input type="date")
InspectionDates == { 20230815, 20230830 }

\* the calendar date exactly n months after d: same day of the month, n
\* months on, the last day of that month when it is shorter
MonthsAfter(d, n) ==
  LET m0 == Month(d) + n
      y  == IF m0 > 12 THEN Year(d) + 1 ELSE Year(d)
      m  == IF m0 > 12 THEN m0 - 12 ELSE m0
      dim == DaysInMonth(y, m)
  IN  MkDate(y, m, IF Day(d) <= dim THEN Day(d) ELSE dim)

\* Date.prototype.setMonth(getMonth() + n) followed by
\* toISOString().split('T')[0]: a day past the end of the target month
\* carries into the month after it
setMonthPlus(d, n) ==
  LET m0 == Month(d) + n
      y  == IF m0 > 12 THEN Year(d) + 1 ELSE Year(d)
      m  == IF m0 > 12 THEN m0 - 12 ELSE m0
      dim == DaysInMonth(y, m)
  IN  IF Day(d) <= dim THEN MkDate(y, m, Day(d))
      ELSE IF m < 12 THEN MkDate(y, m + 1, Day(d) - dim)
           ELSE MkDate(y + 1, 1, Day(d) - dim)

RETENTION_MONTHS == 6

(***************************************************************************)
(* Record store (storageService)                                           *)
(***************************************************************************)
\* asset ids the store is called with
StoreSystems == { "1", "5" }

\* the asset whose detail panel is open: listings are requested for it
ListedSystems == { "5" }

\* bound: records kept in the three collections together
MaxStored == 3

\* bound: storageService calls waiting in their delay at the same time
MaxCalls == 1

\* bound: storageService writes that are waiting in their delay at the same time
MaxWrites == 2

\* (a comparator with its operands exchanged: earliest first)
RECURSIVE InsertByDateAsc(_, _)
InsertByDateAsc(sorted, r) ==
  IF sorted = << >> THEN << r >>
  ELSE IF Head(sorted).date <= r.date
         THEN << Head(sorted) >> \o InsertByDateAsc(Tail(sorted), r)
         ELSE << r >> \o sorted

\* Array.prototype.sort((a, b) => b.date - a.date) is stable: a record is
\* placed after the records already placed whose date is not earlier
RECURSIVE InsertByDateDesc(_, _)
InsertByDateDesc(sorted, r) ==
  IF sorted = << >> THEN << r >>
  ELSE IF Head(sorted).date >= r.date
         THEN << Head(sorted) >> \o InsertByDateDesc(Tail(sorted), r)
         ELSE << r >> \o sorted

RECURSIVE SortByDateDescFrom(_, _, _)
SortByDateDescFrom(s, i, sorted) ==
  IF i > Len(s) THEN sorted
  ELSE SortByDateDescFrom(s, i + 1, InsertByDateDesc(sorted, s[i]))

SortByDateDesc(s) == SortByDateDescFrom(s, 1, << >>)

\* .filter(r => r.systemId === systemId)
RECURSIVE FilterBySystem(_, _)
FilterBySystem(s, systemId) ==
  IF s = << >> THEN << >>
  ELSE IF Head(s).systemId = systemId
         THEN << Head(s) >> \o FilterBySystem(Tail(s), systemId)
         ELSE FilterBySystem(Tail(s), systemId)

\* SOPs are ordered by uploadDate: the sort key of a SOP
RECURSIVE ByUploadDate(_)
ByUploadDate(s) ==
  IF s = << >> THEN << >>
  ELSE << [sop |-> Head(s), date |-> Head(s).uploadDate] >> \o ByUploadDate(Tail(s))

RECURSIVE Sops(_)
Sops(keyed) ==
  IF keyed = << >> THEN << >> ELSE << Head(keyed).sop >> \o Sops(Tail(keyed))

\* storageService.getInspections, after its delay
getInspections(allRecords, systemId) ==
  SortByDateDesc(FilterBySystem(allRecords, systemId))

\* (a write that replaces the list instead of appending to it)
saveInspectionReplacing(allRecords, record) == << record >>

\* storageService.saveInspection, after its delay
saveInspection(allRecords, record) == Append(allRecords, record)

\* storageService.getExcelReports, after its delay
getExcelReports(allReports, systemId) ==
  SortByDateDesc(FilterBySystem(allReports, systemId))

\* (a write that stamps the retention date on every report of the list)
saveExcelReportRestamping(allReports, report, today) ==
  [i \in 1..(Len(allReports) + 1) |->
     [systemId |-> IF i <= Len(allReports) THEN allReports[i].systemId ELSE report.systemId,
      date |-> IF i <= Len(allReports) THEN allReports[i].date ELSE report.date,
      retentionDate |-> setMonthPlus(today, RETENTION_MONTHS)]]

\* storageService.saveExcelReport, after its delay; today is new Date()
saveExcelReport(allReports, report, today) ==
  Append(allReports,
         [k \in DOMAIN report \cup { "retentionDate" } |->
            IF k = "retentionDate" THEN setMonthPlus(today, RETENTION_MONTHS)
                                   ELSE report[k]])

\* storageService.getSOPs, after its delay
getSOPs(allSops, systemId) ==
  Sops(SortByDateDesc(ByUploadDate(FilterBySystem(allSops, systemId))))

\* storageService.saveSOP, after its delay
saveSOP(allSops, sop) == Append(allSops, sop)

\* storageService.deleteSOP, after its delay
RECURSIVE deleteSOP(_, _)
deleteSOP(allSops, sopId) ==
  IF allSops = << >> THEN << >>
  ELSE IF Head(allSops).id # sopId
         THEN << Head(allSops) >> \o deleteSOP(Tail(allSops), sopId)
         ELSE deleteSOP(Tail(allSops), sopId)

Stored == Len(inspectionsStore) + Len(reportsStore) + Len(sopsStore)

\* writes that are waiting in their delay
PendingWrites ==
  BagCardinality([c \in { x \in BagToSet(calls) :
                            x.op \in {"saveInspection", "saveExcelReport", "saveSOP"} }
                    |-> calls[c]])

RemoveAt(s, i) == SubSeq(s, 1, i - 1) \o SubSeq(s, i + 1, Len(s))

\* a caller invokes a storageService method; the call sits in delay(...)
Issue(c, limit) ==
  /\ BagCardinality(calls) < limit
  /\ calls' = calls (+) SetToBag({c})
  /\ UNCHANGED << panelVars, excelVars, aiVars, browserVars, assetVars, inspectionsStore, reportsStore, sopsStore, drafts,
                  now, uiVars >>

Call(c) == Issue(c, MaxCalls)

CanWrite == Stored + PendingWrites < MaxStored

\* the record handleSaveInspection builds
InspectionRecord(sysId, date, inspectorName) ==
  [systemId |-> sysId, date |-> date, inspectorName |-> inspectorName]

\* the report handleFileUpload stamps before it calls saveExcelReport
StampedReport(sysId) == [systemId |-> sysId, date |-> now]

\* the SOP handleSOPUpload builds
SopRecord(sysId, title, category, rules) ==
  [id |-> now, systemId |-> sysId, uploadDate |-> now, title |-> title,
   category |-> category, isActive |-> TRUE, extractedRules |-> rules]

CallGetInspections(systemId) ==
  Call([op |-> "getInspections", systemId |-> systemId])

CallSaveInspection(sysId, date) ==
  /\ CanWrite
  /\ Issue([op |-> "saveInspection", record |-> InspectionRecord(sysId, date, "QA")], MaxWrites)

CallGetExcelReports(systemId) ==
  Call([op |-> "getExcelReports", systemId |-> systemId])

CallSaveExcelReport(sysId) ==
  /\ CanWrite
  /\ Issue([op |-> "saveExcelReport", report |-> StampedReport(sysId)], MaxWrites)

CallGetSOPs(systemId) ==
  Call([op |-> "getSOPs", systemId |-> systemId])

CallSaveSOP(sysId) ==
  /\ CanWrite
  /\ Issue([op |-> "saveSOP", sop |-> SopRecord(sysId, "SOP-XLS", "Spreadsheet Validation",
                                                "No specific rules extracted.")], MaxWrites)

CallDeleteSOP(sopId) ==
  Issue([op |-> "deleteSOP", sopId |-> sopId], MaxWrites)

\* The delay of call c is over: the rest of the method runs without a
\* suspension point between its getItem and its return or setItem.
Resolved(c, op) ==
  /\ c \in BagToSet(calls)
  /\ c.op = op
  /\ calls' = calls (-) SetToBag({c})
  /\ UNCHANGED << panelVars, excelVars, aiVars, browserVars, assetVars, drafts, now, uiVars >>

ResolveGetInspections(c) ==
  /\ Resolved(c, "getInspections")
  /\ UNCHANGED << inspectionsStore, reportsStore, sopsStore >>

ResolveSaveInspection(c) ==
  /\ Resolved(c, "saveInspection")
  /\ inspectionsStore' = saveInspection(inspectionsStore, c.record)
  /\ UNCHANGED << reportsStore, sopsStore >>

ResolveGetExcelReports(c) ==
  /\ Resolved(c, "getExcelReports")
  /\ UNCHANGED << inspectionsStore, reportsStore, sopsStore >>

ResolveSaveExcelReport(c) ==
  /\ Resolved(c, "saveExcelReport")
  /\ reportsStore' = saveExcelReport(reportsStore, c.report, now)
  /\ UNCHANGED << inspectionsStore, sopsStore >>

ResolveGetSOPs(c) ==
  /\ Resolved(c, "getSOPs")
  /\ UNCHANGED << inspectionsStore, reportsStore, sopsStore >>

\* (a write that works on the list as it was read before the write that
\* completed last)
ResolveSaveSOPFromStaleRead(c) ==
  /\ Resolved(c, "saveSOP")
  /\ sopsStore' = saveSOP(SubSeq(sopsStore, 1, Len(sopsStore) - 1), c.sop)
  /\ UNCHANGED << inspectionsStore, reportsStore >>

ResolveSaveSOP(c) ==
  /\ Resolved(c, "saveSOP")
  /\ sopsStore' = saveSOP(sopsStore, c.sop)
  /\ UNCHANGED << inspectionsStore, reportsStore >>

ResolveDeleteSOP(c) ==
  /\ Resolved(c, "deleteSOP")
  /\ sopsStore' = deleteSOP(sopsStore, c.sopId)
  /\ UNCHANGED << inspectionsStore, reportsStore >>

\* midnight passes
Midnight ==
  /\ now < DayAfter(StartDay, MaxDays)
  /\ now' = NextDay(now)
  /\ UNCHANGED << panelVars, excelVars, aiVars, browserVars, assetVars, inspectionsStore, reportsStore, sopsStore, drafts,
                  calls, uiVars >>

(***************************************************************************)
(* Draft area of the store (storageService, USER_DRAFTS_KEY)               *)
(***************************************************************************)
INSPECTION_FORM == "inspection_form"
SOP_FORM == "sop_form"
FormKeys == { INSPECTION_FORM, SOP_FORM }

NoUser == "none"

\* selectedSystem of a SystemList with no asset selected
NoSelection == "null"
Users == { "admin-001", "1700000000002" }

\* a JSON object with no keys
EmptyObject == [k \in {} |-> k]

\* obj[k] = v
Put(obj, k, v) == [x \in DOMAIN obj \cup {k} |-> IF x = k THEN v ELSE obj[x]]

\* delete obj[k]
Delete(obj, k) == [x \in DOMAIN obj \ {k} |-> obj[x]]

\* drafts[userId]?.[key] is an object
HasDraft(store, userId, key) ==
  userId \in DOMAIN store /\ key \in DOMAIN store[userId]

\* storageService.saveUserDraft
saveUserDraft(store, userId, key, data) ==
  Put(store, userId,
      Put(IF userId \in DOMAIN store THEN store[userId] ELSE EmptyObject, key, data))

\* storageService.getUserDraft, where it does not return null
getUserDraft(store, userId, key) == store[userId][key]

\* storageService.clearUserDrafts
clearUserDrafts(store, userId) ==
  IF userId \in DOMAIN store THEN Delete(store, userId) ELSE store

\* storageService.clearSpecificDraft
clearSpecificDraft(store, userId, key) ==
  IF HasDraft(store, userId, key)
    THEN Put(store, userId, Delete(store[userId], key))
    ELSE store

(***************************************************************************)
(* Draft autosave controller (SystemList.tsx) and session (App.tsx)        *)
(***************************************************************************)
\* the autosave delay, setTimeout(..., 1000)
DEBOUNCE_MS == 1000

\* granularity of the clock of the model
HalfWindow == DEBOUNCE_MS \div 2

\* bound: form submissions started in one run (finished or in flight)
MaxSubmits == 1

NoDate == 0

\* useState initial value of newInspection, and its value after a save
BlankInspection == [inspectorName |-> "", date |-> NoDate, parameters |-> EmptyObject]

\* useState initial value of newSOP, and its value after an upload
BlankSOP == [title |-> "", version |-> "1.0", category |-> "Operation",
             contentText |-> ""]

\* the asset selected in the list while the forms are used
SelectedSystems == { "5" }

\* restore effect: Object.keys(inspectionDraft).length > 0
RestoresOpenInspection(draft) == DOMAIN draft # {}

\* restore effect: sopDraft.title || sopDraft.contentText
RestoresOpenSOPByTitle(draft) == draft.title # ""

RestoresOpenSOP(draft) == draft.title # "" \/ draft.contentText # ""

\* autosave effect of form key: clearTimeout of the timer the effect set
\* before (its cleanup), then setTimeout with the values of this render
ArmKeepingOld(ts, key, user, open, data) ==
  ts \cup { [key |-> key, user |-> user, open |-> open, data |-> data,
             left |-> DEBOUNCE_MS] }

Arm(ts, key, user, open, data) ==
  { t \in ts : t.key # key }
    \cup { [key |-> key, user |-> user, open |-> open, data |-> data,
            left |-> DEBOUNCE_MS] }

\* the form of key was touched now: its quiet period restarts; the write
\* count restarts unless the touch continues a burst (it follows the
\* previous touch within the debounce window)
Touched(key) ==
  /\ quiet' = [quiet EXCEPT ![key] = 0]
  /\ writes' = [writes EXCEPT ![key] = IF quiet[key] < DEBOUNCE_MS THEN @ ELSE 0]
  /\ edits' = [edits EXCEPT ![key] = quiet[key] < DEBOUNCE_MS]

\* no submission of the form is on record
NoSubmission == [user |-> NoUser, finished |-> FALSE]

\* the submit handler of the form of key starts / has run to its end
Started(key) ==
  [submitted EXCEPT ![key] = [user |-> currentUser, finished |-> FALSE]]

Finished(key) ==
  [submitted EXCEPT ![key] = IF @ = NoSubmission THEN @ ELSE [@ EXCEPT !.finished = TRUE]]

AllTouched ==
  /\ quiet' = [k \in FormKeys |-> 0]
  /\ writes' = [k \in FormKeys |-> 0]
  /\ edits' = [k \in FormKeys |-> FALSE]

\* cleanups of an unmounting SystemList: its timers are cleared; the
\* handlers it started keep running but their setState calls have no effect
UnmountedKeepingTimers ==
  /\ mounted' = FALSE
  /\ timers' = timers
  /\ newInspection' = BlankInspection
  /\ isAddingInspection' = FALSE
  /\ newSOP' = BlankSOP
  /\ isUploadingSOP' = FALSE
  /\ isAnalyzingSOP' = FALSE
  /\ handlers' = [i \in 1..Len(handlers) |-> [handlers[i] EXCEPT !.live = FALSE]]
  /\ selectedSystem' = NoSelection
  /\ activeTab' = "details"
  /\ sops' = << >>
  /\ AllTouched

Unmounted ==
  /\ mounted' = FALSE
  /\ timers' = {}
  /\ newInspection' = BlankInspection
  /\ isAddingInspection' = FALSE
  /\ newSOP' = BlankSOP
  /\ isUploadingSOP' = FALSE
  /\ isAnalyzingSOP' = FALSE
  /\ handlers' = [i \in 1..Len(handlers) |-> [handlers[i] EXCEPT !.live = FALSE]]
  /\ selectedSystem' = NoSelection
  /\ activeTab' = "details"
  /\ sops' = << >>
  /\ AllTouched

\* Login.onLoginSuccess -> App.handleLogin (the dashboard tab is shown)
Login(u) ==
  /\ currentUser = NoUser
  /\ currentUser' = u
  /\ discarded' = discarded \ {u}
  /\ submitted' = [k \in FormKeys |-> NoSubmission]
  /\ UNCHANGED << panelVars, excelVars, aiVars, browserVars, assetVars, storeVars, drafts, mounted, newInspection,
                  isAddingInspection, newSOP, isUploadingSOP, isAnalyzingSOP,
                  timers, handlers, quiet, writes, edits >>

\* App.confirmLogout(saveChanges)
confirmLogout(saveChanges) ==
  /\ currentUser # NoUser
  /\ drafts' = IF saveChanges THEN drafts ELSE clearUserDrafts(drafts, currentUser)
  /\ currentUser' = NoUser
  /\ discarded' = IF saveChanges THEN discarded ELSE discarded \cup {currentUser}
  /\ Unmounted
  /\ UNCHANGED << excelVars, aiVars, browserVars, assetVars, storeVars, submitted >>

\* App renders <SystemList>: useState initial values, the restore effect and
\* the first run of the two autosave effects
MountSystemList ==
  /\ currentUser # NoUser
  /\ ~mounted
  /\ mounted' = TRUE
  /\ LET hasI == HasDraft(drafts, currentUser, INSPECTION_FORM)
         insp == IF hasI THEN getUserDraft(drafts, currentUser, INSPECTION_FORM)
                         ELSE BlankInspection
         addI == hasI /\ RestoresOpenInspection(insp)
         hasS == HasDraft(drafts, currentUser, SOP_FORM)
         sop  == IF hasS THEN getUserDraft(drafts, currentUser, SOP_FORM)
                         ELSE BlankSOP
         upS  == hasS /\ RestoresOpenSOP(sop)
     IN  /\ newInspection' = insp
         /\ isAddingInspection' = addI
         /\ newSOP' = sop
         /\ isUploadingSOP' = upS
         /\ timers' = Arm(Arm({}, INSPECTION_FORM, currentUser, addI, insp),
                          SOP_FORM, currentUser, upS, sop)
  /\ isAnalyzingSOP' = FALSE
  /\ AllTouched
  /\ UNCHANGED << panelVars, excelVars, aiVars, browserVars, assetVars, storeVars, drafts, currentUser, handlers, discarded, submitted >>

\* App stops rendering <SystemList> (another tab, the add-asset form, reload)
UnmountSystemList ==
  /\ mounted
  /\ Unmounted
  /\ UNCHANGED << excelVars, aiVars, browserVars, assetVars, storeVars, drafts, currentUser, discarded, submitted >>

\* a change of the inspection form state or of its open flag, and the
\* re-run of the autosave effect that depends on them
SetInspectionFormStale(data, open) ==
  /\ newInspection' = data
  /\ isAddingInspection' = open
  /\ timers' = Arm(timers, INSPECTION_FORM, currentUser, isAddingInspection,
                   newInspection)
  /\ Touched(INSPECTION_FORM)

SetInspectionForm(data, open) ==
  /\ newInspection' = data
  /\ isAddingInspection' = open
  /\ timers' = Arm(timers, INSPECTION_FORM, currentUser, open, data)
  /\ Touched(INSPECTION_FORM)

SetSOPForm(data, open) ==
  /\ newSOP' = data
  /\ isUploadingSOP' = open
  /\ timers' = Arm(timers, SOP_FORM, currentUser, open, data)
  /\ Touched(SOP_FORM)

\* "New Entry" / "Cancel": setIsAddingInspection(!isAddingInspection)
ToggleInspectionForm ==
  /\ mounted
  /\ SetInspectionForm(newInspection, ~isAddingInspection)
  /\ submitted' = [submitted EXCEPT ![INSPECTION_FORM] = NoSubmission]
  /\ UNCHANGED << panelVars, excelVars, aiVars, browserVars, assetVars, storeVars, drafts, currentUser, mounted, newSOP,
                  isUploadingSOP, isAnalyzingSOP, handlers, discarded >>

\* onChange of the inspector name input
EditInspectorName(v) ==
  /\ mounted /\ isAddingInspection
  /\ newInspection.inspectorName # v
  /\ SetInspectionForm([newInspection EXCEPT !.inspectorName = v], isAddingInspection)
  /\ submitted' = [submitted EXCEPT ![INSPECTION_FORM] = NoSubmission]
  /\ UNCHANGED << panelVars, excelVars, aiVars, browserVars, assetVars, storeVars, drafts, currentUser, mounted, newSOP,
                  isUploadingSOP, isAnalyzingSOP, handlers, discarded >>

\* onChange of the inspection date input
EditInspectionDate(v) ==
  /\ mounted /\ isAddingInspection
  /\ newInspection.date # v
  /\ SetInspectionForm([newInspection EXCEPT !.date = v], isAddingInspection)
  /\ submitted' = [submitted EXCEPT ![INSPECTION_FORM] = NoSubmission]
  /\ UNCHANGED << panelVars, excelVars, aiVars, browserVars, assetVars, storeVars, drafts, currentUser, mounted, newSOP,
                  isUploadingSOP, isAnalyzingSOP, handlers, discarded >>

\* SYSTEM_PARAMS: the names of the parameters of each category of asset
SYSTEM_PARAMS ==
  [type \in { WATER_SYSTEM, HVAC, LAB_EQUIPMENT, MONITORING, SOFTWARE } |->
     CASE type = WATER_SYSTEM  -> { "conductivity", "toc", "temp", "flow" }
       [] type = HVAC          -> { "diff_pressure", "temp", "humidity", "hepa_integrity" }
       [] type = LAB_EQUIPMENT -> { "audit_trail", "calibration_offset",
                                    "system_suitability", "data_backup" }
       [] type = MONITORING    -> { "sensor_drift", "battery", "alarm_test", "signal" }
       [] type = SOFTWARE      -> { "access_review", "esignature", "error_logs",
                                    "backup_restore" }]

\* onChange of the input of a parameter, which the form renders for the
\* parameters of the category of the asset whose panel shows it; the value
\* typed is a number, which the check of numeric inputs lets through
EditParameter(sys, name, v) ==
  /\ mounted /\ isAddingInspection
  /\ name \in SYSTEM_PARAMS[sys.type]
  /\ SetInspectionForm(
       [newInspection EXCEPT !.parameters = Put(newInspection.parameters, name, v)],
       isAddingInspection)
  /\ submitted' = [submitted EXCEPT ![INSPECTION_FORM] = NoSubmission]
  /\ UNCHANGED << panelVars, excelVars, aiVars, browserVars, assetVars, storeVars, drafts, currentUser, mounted, newSOP,
                  isUploadingSOP, isAnalyzingSOP, handlers, discarded >>

\* "Upload SOP" / "Cancel": setIsUploadingSOP(!isUploadingSOP)
ToggleSOPForm ==
  /\ mounted
  /\ SetSOPForm(newSOP, ~isUploadingSOP)
  /\ submitted' = [submitted EXCEPT ![SOP_FORM] = NoSubmission]
  /\ UNCHANGED << panelVars, excelVars, aiVars, browserVars, assetVars, storeVars, drafts, currentUser, mounted,
                  newInspection, isAddingInspection, isAnalyzingSOP, handlers,
                  discarded >>

\* onChange of the SOP title input
EditSOPTitle(v) ==
  /\ mounted /\ isUploadingSOP
  /\ newSOP.title # v
  /\ SetSOPForm([newSOP EXCEPT !.title = v], isUploadingSOP)
  /\ submitted' = [submitted EXCEPT ![SOP_FORM] = NoSubmission]
  /\ UNCHANGED << panelVars, excelVars, aiVars, browserVars, assetVars, storeVars, drafts, currentUser, mounted,
                  newInspection, isAddingInspection, isAnalyzingSOP, handlers,
                  discarded >>

\* onChange of the SOP content textarea
EditSOPContent(v) ==
  /\ mounted /\ isUploadingSOP
  /\ newSOP.contentText # v
  /\ SetSOPForm([newSOP EXCEPT !.contentText = v], isUploadingSOP)
  /\ submitted' = [submitted EXCEPT ![SOP_FORM] = NoSubmission]
  /\ UNCHANGED << panelVars, excelVars, aiVars, browserVars, assetVars, storeVars, drafts, currentUser, mounted,
                  newInspection, isAddingInspection, isAnalyzingSOP, handlers,
                  discarded >>

\* a handler waiting in the delay(300) of a store write
InDelay(h) == h.kind \in { "saveInspection", "saveSOP" }

\* half a debounce window passes; a timer that has expired runs before
\* more time passes, and the delay of a store write, shorter than the clock
\* step, is over before the second step after its start
Tick ==
  /\ mounted
  /\ \A t \in timers : t.left > 0
  /\ \A i \in 1..Len(handlers) : ~(InDelay(handlers[i]) /\ handlers[i].aged)
  /\ handlers' = [i \in 1..Len(handlers) |->
                    IF InDelay(handlers[i]) THEN [handlers[i] EXCEPT !.aged = TRUE]
                                            ELSE handlers[i]]
  /\ \E k \in FormKeys : quiet[k] <= DEBOUNCE_MS
  /\ timers' = { [t EXCEPT !.left = t.left - HalfWindow] : t \in timers }
  /\ quiet' = [k \in FormKeys |->
                 IF quiet[k] <= DEBOUNCE_MS THEN quiet[k] + HalfWindow ELSE quiet[k]]
  /\ UNCHANGED << panelVars, excelVars, aiVars, browserVars, assetVars, storeVars, drafts, currentUser, mounted,
                  newInspection, isAddingInspection, newSOP, isUploadingSOP,
                  isAnalyzingSOP, writes, edits, discarded, submitted >>

\* the setTimeout callback of an autosave effect runs
TimerFires(t) ==
  /\ t \in timers
  /\ t.left = 0
  /\ timers' = timers \ {t}
  /\ IF t.open
       THEN /\ drafts' = saveUserDraft(drafts, t.user, t.key, t.data)
            /\ writes' = [writes EXCEPT ![t.key] = @ + 1]
       ELSE UNCHANGED << drafts, writes >>
  /\ UNCHANGED << panelVars, excelVars, aiVars, browserVars, assetVars, storeVars, currentUser, mounted, newInspection,
                  isAddingInspection, newSOP, isUploadingSOP, isAnalyzingSOP,
                  handlers, quiet, edits, discarded, submitted >>

CanSubmit ==
  Len(handlers) + Len(inspectionsStore) + Len(sopsStore) < MaxSubmits

\* handleSaveInspection(sysId) up to its await
\* (a handler that asks for the inspector name only)
handleSaveInspectionNameOnly(sysId) ==
  /\ mounted /\ isAddingInspection
  /\ IF newInspection.inspectorName = ""
       THEN /\ alerted' = "Please fill in Date and Inspector Name"
            /\ UNCHANGED << handlers, submitted >>
       ELSE /\ CanSubmit
            /\ handlers' = Append(handlers,
                 [kind |-> "saveInspection", live |-> TRUE, aged |-> FALSE,
                  user |-> currentUser,
                  record |-> Put(InspectionRecord(sysId, newInspection.date,
                                                  newInspection.inspectorName),
                                 "parameters", newInspection.parameters)])
            /\ submitted' = Started(INSPECTION_FORM)
            /\ UNCHANGED alerted
  /\ UNCHANGED << panelVars, excelVars, aiVars, usersStore, sessionStore, assetVars,
                  storeVars, drafts, currentUser, mounted,
                  newInspection, isAddingInspection, newSOP, isUploadingSOP,
                  isAnalyzingSOP, timers, quiet, writes, edits, discarded >>

handleSaveInspection(sysId) ==
  /\ mounted /\ isAddingInspection
  /\ IF newInspection.inspectorName = "" \/ newInspection.date = NoDate
       THEN /\ alerted' = "Please fill in Date and Inspector Name"
            /\ UNCHANGED << handlers, submitted >>
       ELSE /\ CanSubmit
            /\ handlers' = Append(handlers,
                 [kind |-> "saveInspection", live |-> TRUE, aged |-> FALSE,
                  user |-> currentUser,
                  record |-> Put(InspectionRecord(sysId, newInspection.date,
                                                  newInspection.inspectorName),
                                 "parameters", newInspection.parameters)])
            /\ submitted' = Started(INSPECTION_FORM)
            /\ UNCHANGED alerted
  /\ UNCHANGED << panelVars, excelVars, aiVars, usersStore, sessionStore, assetVars,
                  storeVars, drafts, currentUser, mounted,
                  newInspection, isAddingInspection, newSOP, isUploadingSOP,
                  isAnalyzingSOP, timers, quiet, writes, edits, discarded >>

\* handleSaveInspection from the moment saveInspection's delay is over:
\* the store write, the form reset and clearSpecificDraft
InspectionSaved(i) ==
  /\ i \in 1..Len(handlers)
  /\ handlers[i].kind = "saveInspection"
  /\ inspectionsStore' = saveInspection(inspectionsStore, handlers[i].record)
  /\ IF handlers[i].live
       THEN SetInspectionForm(BlankInspection, FALSE)
       ELSE UNCHANGED << newInspection, isAddingInspection, timers, quiet, writes, edits >>
  /\ drafts' = clearSpecificDraft(drafts, handlers[i].user, INSPECTION_FORM)
  /\ handlers' = RemoveAt(handlers, i)
  /\ submitted' = Finished(INSPECTION_FORM)
  /\ UNCHANGED << panelVars, excelVars, aiVars, browserVars, assetVars, reportsStore, sopsStore, calls, now, currentUser,
                  mounted, newSOP, isUploadingSOP, isAnalyzingSOP, discarded >>

\* handleSOPUpload up to its first await (analyzeSOP)
handleSOPUpload(sysId, fileChosen) ==
  /\ mounted /\ isUploadingSOP /\ ~isAnalyzingSOP
  /\ IF newSOP.title = "" \/ ~fileChosen
       THEN UNCHANGED << handlers, isAnalyzingSOP, submitted >>
       ELSE /\ CanSubmit
            /\ isAnalyzingSOP' = TRUE
            /\ handlers' = Append(handlers,
                 [kind |-> "analyzeSOP", live |-> TRUE, aged |-> FALSE,
                  user |-> currentUser,
                  sysId |-> sysId, form |-> newSOP])
            /\ submitted' = Started(SOP_FORM)
  /\ UNCHANGED << panelVars, excelVars, aiVars, browserVars, assetVars, storeVars, drafts, currentUser, mounted,
                  newInspection, isAddingInspection, newSOP, isUploadingSOP,
                  timers, quiet, writes, edits, discarded >>

\* handleSOPUpload between analyzeSOP's answer and its second await (saveSOP)
SOPAnalyzed(i) ==
  /\ i \in 1..Len(handlers)
  /\ handlers[i].kind = "analyzeSOP"
  /\ handlers' = [handlers EXCEPT ![i] =
                    [kind |-> "saveSOP", live |-> handlers[i].live, aged |-> FALSE,
                     user |-> handlers[i].user,
                     sop |-> SopRecord(handlers[i].sysId, handlers[i].form.title,
                                       handlers[i].form.category,
                                       "No specific rules extracted.")]]
  /\ UNCHANGED << panelVars, excelVars, aiVars, browserVars, assetVars, storeVars, drafts, currentUser, mounted,
                  newInspection, isAddingInspection, newSOP, isUploadingSOP,
                  isAnalyzingSOP, timers, quiet, writes, edits, discarded, submitted >>

\* handleSOPUpload from the moment saveSOP's delay is over
SOPSaved(i) ==
  /\ i \in 1..Len(handlers)
  /\ handlers[i].kind = "saveSOP"
  /\ sopsStore' = saveSOP(sopsStore, handlers[i].sop)
  /\ IF handlers[i].live
       THEN /\ SetSOPForm(BlankSOP, FALSE)
            /\ isAnalyzingSOP' = FALSE
       ELSE UNCHANGED << newSOP, isUploadingSOP, isAnalyzingSOP, timers, quiet,
                         writes, edits >>
  /\ drafts' = clearSpecificDraft(drafts, handlers[i].user, SOP_FORM)
  /\ handlers' = RemoveAt(handlers, i)
  /\ submitted' = Finished(SOP_FORM)
  /\ UNCHANGED << panelVars, excelVars, aiVars, browserVars, assetVars, inspectionsStore, reportsStore, calls, now,
                  currentUser, mounted, newInspection, isAddingInspection,
                  discarded >>

(***************************************************************************)
(* Spreadsheets (SystemList.tsx: Excel File Logic)                         *)
(*                                                                         *)
(* A JavaScript string is the sequence of its characters; a number is kept *)
(* as its digits with the cell type "n".  A worksheet is the populated     *)
(* range '!ref' and a function from cell references to cell objects; a     *)
(* reference outside its domain is a cell the sheet does not hold.         *)
(***************************************************************************)
\* a property that is not set
Undefined == << "undefined" >>

\* JavaScript truthiness of an optional string
Truthy(str) == str # Undefined /\ str # << >>

\* String.prototype.startsWith
startsWith(str, ch) == Len(str) > 0 /\ str[1] = ch

\* String.prototype.replace(ch, ''): the first occurrence of ch is removed
RECURSIVE replaceFirst(_, _)
replaceFirst(str, ch) ==
  IF str = << >> THEN << >>
  ELSE IF Head(str) = ch THEN Tail(str)
  ELSE << Head(str) >> \o replaceFirst(Tail(str), ch)

\* XLSX.utils.encode_cell({c, r}): zero-based column and row to "A1" style
ColumnLetters == << "A", "B", "C", "D", "E", "F", "G", "H", "I", "J" >>
encode_cell(c, r) == ColumnLetters[c + 1] \o ToString(r + 1)

\* the cell objects a parsed workbook holds
FormulaCell     == [t |-> "n", v |-> << "3" >>, f |-> << "A", "1", "+", "1" >>, c |-> << >>]
TextFormulaCell == [t |-> "s", v |-> << "=", "B", "1" >>, f |-> Undefined, c |-> << >>]
NumberCell      == [t |-> "n", v |-> << "7" >>, f |-> Undefined, c |-> << >>]
TextCell        == [t |-> "s", v |-> << "x", "=", "1" >>, f |-> Undefined, c |-> << >>]
NotedCell       == [t |-> "n", v |-> << "5" >>, f |-> << "B", "2" >>,
                    c |-> << [t |-> "checked"] >>]
Blank           == [t |-> "z", v |-> Undefined, f |-> Undefined, c |-> << >>]

\* sheets are filled cell by cell, in reading order, with a repeating pattern
Patterns == { << FormulaCell >>,
              << NumberCell, TextCell >>,
              << NumberCell, FormulaCell, Blank, TextFormulaCell, TextCell >>,
              << TextFormulaCell, NotedCell, NumberCell >> }

\* small sheets have up to MaxRows x MaxCols cells
MaxRows == 2
MaxCols == 2
\* the large sheet has BigRows x BigCols cells, more than the analyzer takes
BigRows == 9
BigCols == 6
\* the populated range starts at A1 or at B2
Origins == { 0, 1 }

Shapes == { << rows, cols >> : rows \in 1..MaxRows, cols \in 1..MaxCols }
            \cup { << BigRows, BigCols >> }

PatternCell(pattern, rows, cols, r, c) ==
  pattern[((r * cols + c) % Len(pattern)) + 1]

\* the worksheet XLSX.read yields for a file
MakeSheet(origin, rows, cols, pattern) ==
  LET held == { p \in (0..(rows - 1)) \X (0..(cols - 1)) :
                  PatternCell(pattern, rows, cols, p[1], p[2]) # Blank }
      at(a) == CHOOSE p \in held : encode_cell(origin + p[2], origin + p[1]) = a
  IN  [ ref   |-> [s |-> [r |-> origin, c |-> origin],
                   e |-> [r |-> origin + rows - 1, c |-> origin + cols - 1]],
        cells |-> [ a \in { encode_cell(origin + p[2], origin + p[1]) : p \in held }
                      |-> PatternCell(pattern, rows, cols, at(a)[1], at(a)[2]) ] ]

\* a workbook whose first sheet has no '!ref': the code scans "A1:A1"
NoRef == [s |-> [r |-> 0, c |-> 0], e |-> [r |-> 0, c |-> 0]]

Sheets ==
  { MakeSheet(o, sh[1], sh[2], p) : o \in Origins, sh \in Shapes, p \in Patterns }
    \cup { [ref |-> NoRef, cells |-> [a \in {} |-> Blank]] }

\* bytes XLSX.read throws on (an encrypted workbook)
Unreadable == [unreadable |-> TRUE]

FileNames == { "calc.xlsx" }

\* the files the user can pick; the content of a file is kept as the first
\* worksheet XLSX.read decodes from its bytes
Files == [name : FileNames, sheet : Sheets \cup { Unreadable }]

\* the formula text handleFileUpload derives from a cell ("" when none)
FormulaMarkerOnly(cell) ==
  IF Truthy(cell.f) THEN << "=" >> \o cell.f ELSE << >>

FormulaOf(cell) ==
  IF Truthy(cell.f) THEN << "=" >> \o cell.f
  ELSE IF cell.t = "s" /\ startsWith(cell.v, "=") THEN cell.v
  ELSE << >>

\* the nested loops of handleFileUpload over the range, from row R, column C
RECURSIVE ScanFrom(_, _, _)
ScanFrom(ws, R, C) ==
  IF R > ws.ref.e.r THEN << >>
  ELSE IF C > ws.ref.e.c THEN ScanFrom(ws, R + 1, ws.ref.s.c)
  ELSE LET cell_ref == encode_cell(C, R)
           here == IF cell_ref \in DOMAIN ws.cells /\ FormulaOf(ws.cells[cell_ref]) # << >>
                     THEN << [address |-> cell_ref,
                              formula |-> FormulaOf(ws.cells[cell_ref]),
                              value   |-> ws.cells[cell_ref].v] >>
                     ELSE << >>
       IN  here \o ScanFrom(ws, R, C + 1)

\* the cells handleFileUpload extracts from the first sheet
ExtractCells(ws) == ScanFrom(ws, ws.ref.s.r, ws.ref.s.c)

(***************************************************************************)
(* The capability gateway (geminiService.ts)                               *)
(*                                                                         *)
(* ai.models.generateContent is the only suspension point of a gateway     *)
(* function.  Its promise is rejected, or fulfilled with a response whose  *)
(* text is missing, is not JSON, or is the JSON text of some value.        *)
(***************************************************************************)
\* null
Null == [null |-> TRUE]

\* the outcomes of a generateContent call that answers in prose
TextOutcomes ==
  { [outcome |-> "rejected"], [outcome |-> "text", text |-> ""],
    [outcome |-> "text", text |-> "1. Verify audit trail"] }

\* .filter(pred) on the extracted cells
RECURSIVE FilterFormula(_)
FilterFormula(cells) ==
  IF cells = << >> THEN << >>
  ELSE IF Head(cells).formula # << >>
         THEN << Head(cells) >> \o FilterFormula(Tail(cells))
         ELSE FilterFormula(Tail(cells))

\* .slice(0, n)
slice0(s, n) == SubSeq(s, 1, IF Len(s) < n THEN Len(s) ELSE n)

\* .slice(-n): the last n elements
sliceLast(s, n) == SubSeq(s, IF Len(s) < n THEN 1 ELSE Len(s) - n + 1, Len(s))

\* the number of formula cells validateSpreadsheet hands to the analyzer
FORMULA_LIMIT == 50

\* validateSpreadsheet: const formulaCells = ...
FormulaCellsLast(cells) == sliceLast(FilterFormula(cells), FORMULA_LIMIT)

FormulaCells(cells) == slice0(FilterFormula(cells), FORMULA_LIMIT)

\* validateSpreadsheet: the return of the branch formulaCells.length === 0
NoFormulasResult(fileName) ==
  [fileName |-> fileName, totalFormulas |-> 0, discrepancies |-> << >>,
   isValid |-> TRUE, summary |-> "No formulas found in the spreadsheet."]

\* validateSpreadsheet: the return of its catch block
FailedDiscrepancy ==
  [address |-> "System", formula |-> "N/A", value |-> "Error",
   reason |-> "AI Analysis Failed", severity |-> "High",
   suggestedFormula |-> Undefined, suggestedValue |-> Undefined]

FailedResult(fileName) ==
  [fileName |-> fileName, totalFormulas |-> 0,
   discrepancies |-> << FailedDiscrepancy >>,
   isValid |-> FALSE, summary |-> "Could not perform AI validation."]

\* result.discrepancies || []  and  result.summary || "Analysis complete."
DiscrepanciesOf(result) ==
  IF "discrepancies" \in DOMAIN result THEN result.discrepancies ELSE << >>

SummaryOf(result) ==
  IF "summary" \in DOMAIN result /\ result.summary # ""
    THEN result.summary ELSE "Analysis complete."

\* validateSpreadsheet: the return after a parsed answer
\* (a result that is valid whenever the analyzer gave a summary)
AnalyzedResultBySummary(fileName, formulaCells, result) ==
  [fileName |-> fileName, totalFormulas |-> Len(formulaCells),
   discrepancies |-> DiscrepanciesOf(result),
   isValid |-> "summary" \in DOMAIN result,
   summary |-> SummaryOf(result)]

AnalyzedResult(fileName, formulaCells, result) ==
  [fileName |-> fileName, totalFormulas |-> Len(formulaCells),
   discrepancies |-> DiscrepanciesOf(result),
   isValid |-> Len(DiscrepanciesOf(result)) = 0,
   summary |-> SummaryOf(result)]

\* validateSpreadsheet from the answer of generateContent to its return:
\* JSON.parse(response.text || '{}') throws on text that is not JSON, and
\* reading a property of the parsed value null throws as well
ValidationResult(fileName, formulaCells, answer) ==
  IF answer.outcome = "rejected" THEN FailedResult(fileName)
  ELSE IF answer.outcome = "malformed" THEN FailedResult(fileName)
  ELSE IF answer.outcome = "empty"
         THEN AnalyzedResult(fileName, formulaCells, EmptyObject)
  ELSE IF answer.json = Null THEN FailedResult(fileName)
  ELSE AnalyzedResult(fileName, formulaCells, answer.json)

\* validateSpreadsheet, from its call to its return; answer is what
\* generateContent does when it is called.  The client object is built from the
\* configured API key before anything else; building it calls nothing.
\* (a version that calls the analyzer whatever the cells are)
validateSpreadsheetAlwaysCalling(fileName, cells, answer) ==
  ValidationResult(fileName, FormulaCells(cells), answer)

validateSpreadsheet(fileName, cells, answer) ==
  IF Len(FormulaCells(cells)) = 0
    THEN NoFormulasResult(fileName)
    ELSE ValidationResult(fileName, FormulaCells(cells), answer)

\* the number of generateContent calls one validateSpreadsheet call makes
Invocations(cells) == IF Len(FormulaCells(cells)) = 0 THEN 0 ELSE 1

\* a discrepancy the analyzer reports on the cell at address
Discrepancy(address, reason, suggestedFormula, suggestedValue) ==
  [address |-> address, formula |-> "...", value |-> "...", reason |-> reason,
   severity |-> "Medium",
   suggestedFormula |-> suggestedFormula, suggestedValue |-> suggestedValue]

Reasons == { "Hardcoded value" }
SuggestedFormulas == { << "=", "S", "U", "M", "(", "A", "1", ")" >>,
                       << "I", "F", "(", "A", "1", ">", "=", "2", ")" >> }
SuggestedValues == { << "4", "2" >> }

\* the discrepancy lists an answer can carry about the cells it was sent:
\* none, one on a sent cell, two on the same cell, one on a cell the sheet
\* does not hold
DiscrepancyLists(formulaCells) ==
  LET sent == { formulaCells[i].address : i \in 1..Len(formulaCells) }
      first == formulaCells[1].address
      one(a) == { Discrepancy(a, r, sf, sv) :
                    r \in Reasons,
                    sf \in SuggestedFormulas \cup { Undefined },
                    sv \in SuggestedValues \cup { Undefined } }
  IN  { << >> }
        \cup { << d >> : d \in one(first) }
        \cup { << d >> : d \in one("Z99") }
        \cup { << Discrepancy(first, "Hardcoded value",
                              << "=", "S", "U", "M", "(", "A", "1", ")" >>, Undefined),
                  Discrepancy(first, "Wrong result", Undefined, << "4", "2" >>) >> }
        \cup { << Discrepancy(formulaCells[Len(formulaCells)].address, "Broken chain",
                              Undefined, << "4", "2" >>) >> }

\* the outcomes of the generateContent call of validateSpreadsheet
\* (with nothing to send, only whether the service could be reached)
ValidationAnswers(formulaCells) ==
  IF formulaCells = << >>
    THEN { [outcome |-> "rejected"], [outcome |-> "empty"] }
    ELSE { [outcome |-> "rejected"], [outcome |-> "empty"], [outcome |-> "malformed"],
           [outcome |-> "json", json |-> Null],
           [outcome |-> "json", json |-> EmptyObject],
           [outcome |-> "json", json |-> [summary |-> "No issues."]] }
           \cup { [outcome |-> "json", json |-> [discrepancies |-> ds, summary |-> ""]] :
                    ds \in DiscrepancyLists(formulaCells) }

\* generateTestProtocols, from the answer of generateContent to its return
generateTestProtocols(answer) ==
  IF answer.outcome = "rejected"
    THEN "Error generating protocols. Please check your API key."
  ELSE IF answer.text = "" THEN "No protocols generated."
  ELSE answer.text

\* analyzeSystemRisk, from the answer of generateContent to its return
analyzeSystemRisk(answer) ==
  IF answer.outcome = "rejected" THEN "Error analyzing risk."
  ELSE IF answer.text = "" THEN "Unable to analyze risk."
  ELSE answer.text

\* translateToPersian, from the answer of generateContent to its return
\* (a version whose catch block returns a message in place of the text)
translateToPersianReporting(text, answer) ==
  IF answer.outcome = "rejected" THEN "Error translating."
  ELSE IF answer.text = "" THEN text
  ELSE answer.text

translateToPersian(text, answer) ==
  IF answer.outcome = "rejected" THEN text
  ELSE IF answer.text = "" THEN text
  ELSE answer.text

(***************************************************************************)
(* The Excel tab of SystemList                                             *)
(***************************************************************************)

\* the oldest of the suspended handlers of a kind: equal delays end in the
\* order in which they began
Oldest(i) ==
  /\ i \in 1..Len(inflight)
  /\ \A j \in 1..(i - 1) : inflight[j].kind # inflight[i].kind

\* sops.find(s => s.isActive && s.category === 'Spreadsheet Validation')
RECURSIVE FindActiveSOP(_)
FindActiveSOP(list) ==
  IF list = << >> THEN Null
  ELSE IF Head(list).isActive /\ Head(list).category = "Spreadsheet Validation"
         THEN Head(list)
         ELSE FindActiveSOP(Tail(list))

\* handleFileUpload up to reader.readAsArrayBuffer(file); sops is the list of
\* the render whose handler runs, and stored records what the store held then
handleFileUpload(file, sysId) ==
  /\ ~isAnalyzingExcel
  /\ currentExcelFile' = file
  /\ isAnalyzingExcel' = TRUE
  /\ inflight' = Append(inflight, [kind |-> "reader", file |-> file, sysId |-> sysId,
                                   sops |-> sops, stored |-> sopsStore])
  /\ UNCHANGED << originalExcelData, excelResult, written, excelHistory, downloadRequest >>
  /\ UNCHANGED << panelVars, loadingId, aiProtocols, returned,
                  browserVars, assetVars, storeVars, drafts, uiVars >>

\* reader.onload up to the await of validateSpreadsheet, and validateSpreadsheet
\* up to its generateContent call
ReaderLoaded(i) ==
  /\ i \in 1..Len(inflight)
  /\ inflight[i].kind = "reader"
  /\ inflight[i].file.sheet # Unreadable
  /\ LET h == inflight[i]
         cells == ExtractCells(h.file.sheet)
         activeSOP == FindActiveSOP(h.sops)
     IN  /\ originalExcelData' = h.file.sheet
         /\ inflight' = [inflight EXCEPT ![i] =
              [kind |-> "validateSpreadsheet", fileName |-> h.file.name,
               sysId |-> h.sysId, cells |-> cells, activeSOP |-> activeSOP,
               stored |-> h.stored, sheet |-> h.file.sheet,
               sopContext |-> IF activeSOP # Null THEN activeSOP.extractedRules
                                                   ELSE Undefined,
               formulaCells |-> FormulaCells(cells),
               invoked |-> Invocations(cells)]]
  /\ UNCHANGED << currentExcelFile, excelResult, isAnalyzingExcel, written, excelHistory, downloadRequest >>
  /\ UNCHANGED << panelVars, loadingId, aiProtocols, returned,
                  browserVars, assetVars, storeVars, drafts, uiVars >>

\* reader.onload stamps the analysis validateSpreadsheet returned
StampedAnalysis(h, analysis) ==
  LET stamped == Put(Put(analysis, "systemId", h.sysId), "date", now)
  IN  IF h.activeSOP # Null
        THEN Put(stamped, "referencedSopTitle", h.activeSOP.title)
        ELSE stamped

\* validateSpreadsheet returns to reader.onload, which runs to its await of
\* saveExcelReport: without formulas at once, otherwise when generateContent
\* has answered
ValidationReturns(i, answer) ==
  /\ i \in 1..Len(inflight)
  /\ inflight[i].kind = "validateSpreadsheet"
  /\ CanWrite
  /\ LET h == inflight[i]
         result == validateSpreadsheet(h.fileName, h.cells, answer)
         analysis == StampedAnalysis(h, result)
     IN  /\ answer \in ValidationAnswers(h.formulaCells)
         /\ returned' = [op |-> "validateSpreadsheet", fileName |-> h.fileName,
                         cells |-> h.cells, sent |-> h.formulaCells,
                         sopContext |-> h.sopContext, sysId |-> h.sysId,
                         invoked |-> h.invoked, answer |-> answer, value |-> result,
                         stored |-> h.stored, sheet |-> h.sheet,
                         analysis |-> analysis]
         /\ excelResult' = analysis
         /\ inflight' = [inflight EXCEPT ![i] =
              [kind |-> "saveExcelReport", sysId |-> h.sysId, report |-> analysis]]
  /\ isAnalyzingExcel' = FALSE
  /\ UNCHANGED << currentExcelFile, originalExcelData, written, excelHistory, downloadRequest >>
  /\ UNCHANGED << panelVars, loadingId, aiProtocols, browserVars, assetVars, storeVars,
                  drafts, uiVars >>

\* reader.onload from the end of saveExcelReport's delay to loadExcelHistory(sysId).
\* saveExcelReport stamps the retention date on the object it was given, which
\* is the object setExcelResult was given: the result shown, while it is still
\* that of this upload, carries the stamp too
\* (a handler that goes on to reload the listing without the write)
ExcelReportSavedLate(i) ==
  /\ Oldest(i)
  /\ inflight[i].kind = "saveExcelReport"
  /\ inflight' = [inflight EXCEPT ![i] =
       [kind |-> "loadExcelHistory", sysId |-> inflight[i].sysId,
        report |-> inflight[i].report]]
  /\ UNCHANGED << excelVars, panelVars, loadingId, aiProtocols, returned, browserVars,
                  assetVars, storeVars, drafts, uiVars >>

ExcelReportSaved(i) ==
  /\ Oldest(i)
  /\ inflight[i].kind = "saveExcelReport"
  /\ LET h == inflight[i]
         allReports == saveExcelReport(reportsStore, h.report, now)
         report == allReports[Len(allReports)]
     IN  /\ reportsStore' = allReports
         /\ excelResult' = IF excelResult = h.report THEN report ELSE excelResult
         /\ inflight' = [inflight EXCEPT ![i] =
              [kind |-> "loadExcelHistory", sysId |-> h.sysId, report |-> report]]
  /\ UNCHANGED << currentExcelFile, originalExcelData, isAnalyzingExcel, excelHistory,
                  written, downloadRequest >>
  /\ UNCHANGED << panelVars, loadingId, aiProtocols, returned, browserVars, assetVars,
                  inspectionsStore, sopsStore, calls, now, drafts, uiVars >>

\* loadExcelHistory after the delay of getExcelReports
ExcelHistoryLoaded(i) ==
  /\ Oldest(i)
  /\ inflight[i].kind = "loadExcelHistory"
  /\ excelHistory' = getExcelReports(reportsStore, inflight[i].sysId)
  /\ inflight' = RemoveAt(inflight, i)
  /\ UNCHANGED << currentExcelFile, originalExcelData, excelResult, isAnalyzingExcel,
                  written, downloadRequest >>
  /\ UNCHANGED << panelVars, loadingId, aiProtocols, returned, browserVars, assetVars,
                  storeVars, drafts, uiVars >>

\* reader.onload on bytes XLSX.read rejects: the exception leaves the handler
\* after setOriginalExcelData, and isAnalyzingExcel stays set
ReaderFailed(i) ==
  /\ i \in 1..Len(inflight)
  /\ inflight[i].kind = "reader"
  /\ inflight[i].file.sheet = Unreadable
  /\ originalExcelData' = inflight[i].file.sheet
  /\ inflight' = RemoveAt(inflight, i)
  /\ UNCHANGED << currentExcelFile, excelResult, isAnalyzingExcel, written, excelHistory, downloadRequest >>
  /\ UNCHANGED << panelVars, loadingId, aiProtocols, returned,
                  browserVars, assetVars, storeVars, drafts, uiVars >>

\* the body of excelResult.discrepancies.forEach in handleDownloadCorrectedExcel
\* (a correction that also annotates the cell of a discrepancy without suggestion)
CorrectedCellAlways(cell, disc) ==
  LET fixed == IF Truthy(disc.suggestedFormula)
                 THEN [cell EXCEPT !.f = replaceFirst(disc.suggestedFormula, "="),
                                   !.v = Undefined]
               ELSE IF Truthy(disc.suggestedValue)
                 THEN [cell EXCEPT !.v = disc.suggestedValue, !.f = Undefined]
               ELSE cell
  IN  [fixed EXCEPT !.c = Append(@, [t |-> "MDPC Correction: " \o disc.reason])]

CorrectedCell(cell, disc) ==
  LET fixed == IF Truthy(disc.suggestedFormula)
                 THEN [cell EXCEPT !.f = replaceFirst(disc.suggestedFormula, "="),
                                   !.v = Undefined]
               ELSE IF Truthy(disc.suggestedValue)
                 THEN [cell EXCEPT !.v = disc.suggestedValue, !.f = Undefined]
               ELSE cell
  IN  IF Truthy(disc.suggestedValue) \/ Truthy(disc.suggestedFormula)
        THEN [fixed EXCEPT !.c = Append(@, [t |-> "MDPC Correction: " \o disc.reason])]
        ELSE cell

ApplyCorrection(ws, disc) ==
  IF disc.address \in DOMAIN ws.cells
    THEN [ws EXCEPT !.cells[disc.address] = CorrectedCell(@, disc)]
    ELSE ws

RECURSIVE ApplyCorrections(_, _)
ApplyCorrections(ws, discrepancies) ==
  IF discrepancies = << >> THEN ws
  ELSE ApplyCorrections(ApplyCorrection(ws, Head(discrepancies)), Tail(discrepancies))

\* what a click on "Download Corrected" did
Requested(missing, message, produced) ==
  [missing |-> missing, message |-> message, produced |-> produced]

\* handleDownloadCorrectedExcel
handleDownloadCorrectedExcel ==
  /\ IF originalExcelData = Null \/ excelResult = Null \/ currentExcelFile = Null
       THEN /\ downloadRequest' = Requested(TRUE, "", FALSE)
            /\ UNCHANGED written
     ELSE IF originalExcelData = Unreadable
       THEN /\ downloadRequest' = Requested(FALSE, "Could not generate corrected file.", FALSE)
            /\ UNCHANGED written
     ELSE /\ written' = [name  |-> "Corrected_" \o currentExcelFile.name,
                         sheet |-> ApplyCorrections(originalExcelData,
                                                    excelResult.discrepancies)]
          /\ downloadRequest' = Requested(FALSE, "", TRUE)
  /\ UNCHANGED << currentExcelFile, originalExcelData, excelResult, isAnalyzingExcel,
                  excelHistory >>
  /\ UNCHANGED << panelVars, aiVars, browserVars, assetVars, storeVars, drafts, uiVars >>

(***************************************************************************)
(* The detail panel of SystemList: selection, tabs and the SOP list        *)
(***************************************************************************)
\* analyzeSOP, from the answer of generateContent to its return
SOPServiceError ==
  [status |-> "Non-Compliant", report |-> "AI Service Error during SOP analysis.",
   rules |-> ""]

analyzeSOP(answer) ==
  IF answer.outcome \in { "rejected", "malformed" } THEN SOPServiceError
  ELSE IF answer.outcome = "json" /\ answer.json = Null THEN SOPServiceError
  ELSE LET result == IF answer.outcome = "empty" THEN EmptyObject ELSE answer.json
       IN  [status |-> "Compliant",
            report |-> IF "report" \in DOMAIN result /\ result.report # ""
                         THEN result.report ELSE "Rules extracted successfully.",
            rules  |-> IF "rules" \in DOMAIN result /\ result.rules # ""
                         THEN result.rules ELSE "No specific rules extracted."]

\* the outcomes of the generateContent call of analyzeSOP
SOPAnswers ==
  { [outcome |-> "rejected"], [outcome |-> "empty"], [outcome |-> "malformed"],
    [outcome |-> "json", json |-> Null],
    [outcome |-> "json", json |-> EmptyObject],
    [outcome |-> "json", json |-> [report |-> "2 limits", rules |-> "pH 5-7"]] }

Tabs == { "details", "history", "excel", "sops" }

\* the type of the asset with the given id
TypeOf(sysId) ==
  (CHOOSE sys \in Range(systems) : sys.id = sysId).type

\* the tabs the panel offers for an asset: Excel only for GAMP 5 software
TabsOf(sysId) ==
  IF TypeOf(sysId) = SOFTWARE THEN Tabs ELSE Tabs \ { "excel" }

\* handlers that may be suspended at one time
MaxPending == 2

\* the useEffect on [selectedSystem, activeTab, ...] after a render with the
\* given selection and tab, run to the render at which it settles
LoadData(sel, tab) ==
  LET leaves == TypeOf(sel) # SOFTWARE /\ tab = "excel"
      loads  == IF tab = "excel"
                  THEN << [kind |-> "loadExcelHistory", sysId |-> sel],
                          [kind |-> "loadSOPs", sysId |-> sel] >>
                ELSE IF tab = "sops"
                  THEN << [kind |-> "loadSOPs", sysId |-> sel] >>
                ELSE << >>
      final  == IF leaves THEN "details" ELSE tab
  IN  /\ Len(inflight) + Len(loads) <= MaxPending
      /\ activeTab' = final
      /\ inflight' = inflight \o loads
      /\ IF final # "excel"
           THEN excelResult' = Null /\ currentExcelFile' = Null
           ELSE UNCHANGED << excelResult, currentExcelFile >>

\* a click on an asset of the list
SelectSystem(sysId) ==
  /\ sysId # selectedSystem
  /\ selectedSystem' = sysId
  /\ LoadData(sysId, activeTab)
  /\ UNCHANGED << sops, originalExcelData, isAnalyzingExcel, written, excelHistory, downloadRequest,
                  loadingId, aiProtocols, returned >>
  /\ UNCHANGED << browserVars, assetVars, storeVars, drafts, uiVars >>

\* a click on a tab of the panel
SelectTab(tab) ==
  /\ selectedSystem # NoSelection
  /\ tab \in TabsOf(selectedSystem)
  /\ tab # activeTab
  /\ LoadData(selectedSystem, tab)
  /\ UNCHANGED << selectedSystem, sops, originalExcelData, isAnalyzingExcel, written, excelHistory,
                  downloadRequest, loadingId, aiProtocols, returned >>
  /\ UNCHANGED << browserVars, assetVars, storeVars, drafts, uiVars >>

\* loadSOPs after the delay of getSOPs
SOPsLoaded(i) ==
  /\ Oldest(i)
  /\ inflight[i].kind = "loadSOPs"
  /\ sops' = getSOPs(sopsStore, inflight[i].sysId)
  /\ inflight' = RemoveAt(inflight, i)
  /\ UNCHANGED << selectedSystem, activeTab, excelVars, loadingId, aiProtocols, returned >>
  /\ UNCHANGED << browserVars, assetVars, storeVars, drafts, uiVars >>

\* titles and categories the SOP form is submitted with
TitleFor(sysId) == "SOP of asset " \o sysId
SopCategories == { "Operation", "Spreadsheet Validation" }

\* handleSOPUpload on the SOPs tab, as the panel sees it: up to the await of
\* analyzeSOP (the form and its draft are the subject of the draft controller)
SOPSubmitted(category) ==
  /\ selectedSystem # NoSelection
  /\ activeTab = "sops"
  /\ ~isAnalyzingSOP
  /\ Len(inflight) < MaxPending
  /\ CanWrite
  /\ \A j \in 1..Len(inflight) : inflight[j].kind \notin { "analyzeSOP", "saveSOP" }
  /\ isAnalyzingSOP' = TRUE
  /\ inflight' = Append(inflight,
       [kind |-> "analyzeSOP", sysId |-> selectedSystem,
        title |-> TitleFor(selectedSystem), category |-> category])
  /\ UNCHANGED << panelVars, excelVars, loadingId, aiProtocols, returned >>
  /\ UNCHANGED << browserVars, assetVars, storeVars, drafts, currentUser, mounted, newInspection,
                  isAddingInspection, newSOP, isUploadingSOP, timers, handlers,
                  quiet, writes, edits, discarded, submitted >>

\* ... from the answer of analyzeSOP to the await of saveSOP
SOPUploadAnalyzed(i, answer) ==
  /\ i \in 1..Len(inflight)
  /\ inflight[i].kind = "analyzeSOP"
  /\ inflight' = [inflight EXCEPT ![i] =
       [kind |-> "saveSOP",
        sop |-> SopRecord(inflight[i].sysId, inflight[i].title, inflight[i].category,
                          analyzeSOP(answer).rules)]]
  /\ UNCHANGED << panelVars, excelVars, loadingId, aiProtocols, returned >>
  /\ UNCHANGED << browserVars, assetVars, storeVars, drafts, uiVars >>

\* ... from the end of saveSOP's delay to loadSOPs(selectedSystem), with the
\* selectedSystem of the render in which the upload was started
SOPUploadSaved(i) ==
  /\ i \in 1..Len(inflight)
  /\ inflight[i].kind = "saveSOP"
  /\ sopsStore' = saveSOP(sopsStore, inflight[i].sop)
  /\ isAnalyzingSOP' = FALSE
  /\ inflight' = [inflight EXCEPT ![i] =
       [kind |-> "loadSOPs", sysId |-> inflight[i].sop.systemId]]
  /\ UNCHANGED << panelVars, excelVars, loadingId, aiProtocols, returned >>
  /\ UNCHANGED << browserVars, assetVars, inspectionsStore, reportsStore, calls, now, drafts,
                  currentUser, mounted, newInspection, isAddingInspection, newSOP,
                  isUploadingSOP, timers, handlers, quiet, writes, edits, discarded,
                  submitted >>

\* UserRole
ADMIN == "Admin / QA Manager"
OPERATOR == "Operator / Analyst"

\* currentUser.role: the default admin of initUsers, and a user added with
\* the default role
RoleOf(user) == IF user = "admin-001" THEN ADMIN ELSE OPERATOR

\* handleDeleteSOP up to the await of storageService.deleteSOP; confirmed is
\* the answer to confirm()
\* (a handler that asks for confirmation whatever the role is)
handleDeleteSOPUnchecked(id, confirmed) ==
  /\ Len(inflight) < MaxPending
  /\ IF confirmed
       THEN inflight' = Append(inflight, [kind |-> "deleteSOP", sopId |-> id,
                                          sysId |-> selectedSystem])
       ELSE UNCHANGED inflight
  /\ UNCHANGED alerted
  /\ UNCHANGED << usersStore, sessionStore, panelVars, excelVars, loadingId, aiProtocols,
                  returned, assetVars, storeVars, drafts, uiVars >>

handleDeleteSOP(id, confirmed) ==
  /\ Len(inflight) < MaxPending
  /\ IF RoleOf(currentUser) # ADMIN
       THEN /\ alerted' = "Only Admins can delete SOPs."
            /\ UNCHANGED inflight
     ELSE IF confirmed
       THEN /\ inflight' = Append(inflight, [kind |-> "deleteSOP", sopId |-> id,
                                             sysId |-> selectedSystem])
            /\ UNCHANGED alerted
     ELSE UNCHANGED << inflight, alerted >>
  /\ UNCHANGED << usersStore, sessionStore, panelVars, excelVars, loadingId, aiProtocols,
                  returned, assetVars, storeVars, drafts, uiVars >>

\* handleDeleteSOP from the end of deleteSOP's delay to loadSOPs(selectedSystem),
\* with the selectedSystem of the render in which the click was made
SOPDeleted(i) ==
  /\ Oldest(i)
  /\ inflight[i].kind = "deleteSOP"
  /\ sopsStore' = deleteSOP(sopsStore, inflight[i].sopId)
  /\ inflight' = [inflight EXCEPT ![i] = [kind |-> "loadSOPs", sysId |-> inflight[i].sysId]]
  /\ UNCHANGED << browserVars, panelVars, excelVars, loadingId, aiProtocols, returned >>
  /\ UNCHANGED << assetVars, inspectionsStore, reportsStore, calls, now, drafts, uiVars >>

(***************************************************************************)
(* The protocol of an asset (SystemList.tsx: generate and translate)       *)
(***************************************************************************)
\* aiProtocols[sysId], "" when the asset has none
ProtocolOf(sysId) ==
  IF sysId \in DOMAIN aiProtocols THEN aiProtocols[sysId] ELSE ""

\* handleGenerateProtocols up to the await of generateTestProtocols
Generating(sysId) ==
  /\ Len(inflight) < MaxPending
  /\ loadingId' = sysId
  /\ inflight' = Append(inflight, [kind |-> "generateTestProtocols", sysId |-> sysId])
  /\ UNCHANGED << aiProtocols, returned >>

handleGenerateProtocols(sysId) ==
  /\ Generating(sysId)
  /\ UNCHANGED << panelVars, excelVars, browserVars, assetVars, storeVars, drafts, uiVars >>

\* handleQuickGenerate, with the effect on [selectedSystem, activeTab] that
\* follows when one of the two changed
handleQuickGenerate(sysId) ==
  /\ selectedSystem' = sysId
  /\ activeTab' = "details"
  /\ Generating(sysId)
  /\ IF selectedSystem # sysId \/ activeTab # "details"
       THEN excelResult' = Null /\ currentExcelFile' = Null
       ELSE UNCHANGED << excelResult, currentExcelFile >>
  /\ UNCHANGED << sops, originalExcelData, isAnalyzingExcel, written, excelHistory, downloadRequest >>
  /\ UNCHANGED << browserVars, assetVars, storeVars, drafts, uiVars >>

\* handleGenerateProtocols after the await
ProtocolsGenerated(i, answer) ==
  /\ i \in 1..Len(inflight)
  /\ inflight[i].kind = "generateTestProtocols"
  /\ aiProtocols' = Put(aiProtocols, inflight[i].sysId, generateTestProtocols(answer))
  /\ loadingId' = NoSelection
  /\ inflight' = RemoveAt(inflight, i)
  /\ UNCHANGED returned
  /\ UNCHANGED << panelVars, excelVars, browserVars, assetVars, storeVars, drafts, uiVars >>

\* handleTranslateProtocol up to the await of translateToPersian
handleTranslateProtocol(sysId) ==
  /\ ProtocolOf(sysId) # ""
  /\ Len(inflight) < MaxPending
  /\ loadingId' = sysId
  /\ inflight' = Append(inflight, [kind |-> "translateToPersian", sysId |-> sysId,
                                   text |-> aiProtocols[sysId]])
  /\ UNCHANGED << aiProtocols, returned >>
  /\ UNCHANGED << panelVars, excelVars, browserVars, assetVars, storeVars, drafts, uiVars >>

\* handleTranslateProtocol after the await
ProtocolTranslated(i, answer) ==
  /\ i \in 1..Len(inflight)
  /\ inflight[i].kind = "translateToPersian"
  /\ aiProtocols' = Put(aiProtocols, inflight[i].sysId,
                        translateToPersian(inflight[i].text, answer))
  /\ loadingId' = NoSelection
  /\ inflight' = RemoveAt(inflight, i)
  /\ UNCHANGED returned
  /\ UNCHANGED << panelVars, excelVars, browserVars, assetVars, storeVars, drafts, uiVars >>

(***************************************************************************)
(* The authentication service (authService)                                *)
(*                                                                         *)
(* A user is a JSON object: a record whose domain holds the properties the *)
(* object has.  JSON.stringify and JSON.parse keep such an object as it is.*)
(***************************************************************************)
\* the user initUsers stores when the key is absent
defaultAdmin ==
  [id |-> "admin-001", name |-> "System Administrator", username |-> "admin",
   role |-> ADMIN, password |-> "admin"]

\* the item localStorage.setItem(USERS_KEY, JSON.stringify(users)) stores
UsersItem(users) == [json |-> users]

\* initUsers
initUsers(usersData) ==
  IF usersData = Null THEN UsersItem(<< defaultAdmin >>) ELSE usersData

\* usersData ? JSON.parse(usersData) : []
ParsedUsers(usersData) == IF usersData = Null THEN << >> ELSE usersData.json

\* delete obj[k], and the rest of const { k, ...rest } = obj
Omit(obj, k) == [x \in DOMAIN obj \ { k } |-> obj[x]]

\* users.findIndex(pred), 0 for -1
RECURSIVE FindUserFrom(_, _, _, _)
FindUserFrom(users, i, field, v) ==
  IF i > Len(users) THEN 0
  ELSE IF users[i][field] = v THEN i
  ELSE FindUserFrom(users, i + 1, field, v)

\* users.find(u => u.username === username && u.password === password)
RECURSIVE FindLogin(_, _, _)
FindLogin(users, username, password) ==
  IF users = << >> THEN Null
  ELSE IF Head(users).username = username /\ Head(users).password = password
         THEN Head(users)
         ELSE FindLogin(Tail(users), username, password)

\* login: the user it stores as the session and returns
\* (a session that keeps the whole stored user)
safeUserWhole(user, today) == Put(user, "lastLogin", today)

safeUser(user, today) == Put(Omit(user, "password"), "lastLogin", today)

\* getAllUsers: users.map(u => { const { password, ...rest } = u; return rest })
WithoutPasswords(users) == [i \in 1..Len(users) |-> Omit(users[i], "password")]

\* bound: users in the store
MaxUsers == 3

\* the id Date.now().toString() gives the n-th user
UserId(n) == "170000000000" \o ToString(n)

\* addUser: the user it stores
AddedUser(newUser, n) ==
  [id |-> UserId(n),
   name |-> IF "name" \in DOMAIN newUser /\ newUser.name # "" THEN newUser.name
                                                               ELSE "Unknown",
   username |-> newUser.username,
   password |-> newUser.password,
   role |-> IF "role" \in DOMAIN newUser THEN newUser.role ELSE OPERATOR]

AuthReturns(op, value) ==
  /\ returned' = [op |-> op, value |-> value]
  /\ UNCHANGED << alerted, panelVars, excelVars, loadingId, aiProtocols,
                  assetVars, storeVars, drafts, uiVars >>

\* authService.login up to its await: initUsers and the start of the delay
login(username, password) ==
  /\ Len(inflight) < MaxPending
  /\ usersStore' = initUsers(usersStore)
  /\ inflight' = Append(inflight, [kind |-> "login", username |-> username,
                                   password |-> password])
  /\ UNCHANGED << sessionStore, returned, alerted, panelVars, excelVars, loadingId,
                  aiProtocols, assetVars, storeVars, drafts, uiVars >>

\* authService.login after its delay
loginResolved(i) ==
  /\ i \in 1..Len(inflight)
  /\ inflight[i].kind = "login"
  /\ LET user == FindLogin(ParsedUsers(usersStore), inflight[i].username,
                           inflight[i].password)
     IN  IF user # Null
           THEN /\ sessionStore' = safeUser(user, now)
                /\ AuthReturns("login", safeUser(user, now))
           ELSE /\ UNCHANGED sessionStore
                /\ AuthReturns("login", Null)
  /\ inflight' = RemoveAt(inflight, i)
  /\ UNCHANGED usersStore

\* authService.logout
logout ==
  /\ sessionStore' = Null
  /\ UNCHANGED << usersStore, inflight >>
  /\ AuthReturns("logout", Undefined)

\* authService.getCurrentUser
getCurrentUser ==
  /\ AuthReturns("getCurrentUser", sessionStore)
  /\ UNCHANGED << usersStore, sessionStore, inflight >>

\* authService.getAllUsers
getAllUsers ==
  /\ usersStore' = initUsers(usersStore)
  /\ AuthReturns("getAllUsers", WithoutPasswords(ParsedUsers(initUsers(usersStore))))
  /\ UNCHANGED << sessionStore, inflight >>

\* authService.addUser
addUser(newUser) ==
  /\ Len(ParsedUsers(usersStore)) < MaxUsers
  /\ LET users == ParsedUsers(usersStore)
     IN  IF FindUserFrom(users, 1, "username", newUser.username) # 0
           THEN /\ AuthReturns("addUser", [error |-> "Username already exists"])
                /\ UNCHANGED usersStore
           ELSE /\ usersStore' = UsersItem(Append(users, AddedUser(newUser, Len(users) + 1)))
                /\ AuthReturns("addUser", Undefined)
  /\ UNCHANGED << sessionStore, inflight >>

\* authService.changePassword
changePassword(userId, newPassword) ==
  /\ LET users == ParsedUsers(usersStore)
         index == FindUserFrom(users, 1, "id", userId)
     IN  IF index # 0
           THEN /\ usersStore' = UsersItem([users EXCEPT ![index].password = newPassword])
                /\ AuthReturns("changePassword", Undefined)
           ELSE /\ AuthReturns("changePassword", [error |-> "User not found"])
                /\ UNCHANGED usersStore
  /\ UNCHANGED << sessionStore, inflight >>

(***************************************************************************)
(* Calls of the gateway: each action is one call of a gateway function,    *)
(* from its invocation to the value its promise is fulfilled with          *)
(***************************************************************************)
\* texts a caller asks to translate
Texts == { "1. Verify audit trail", "No protocols generated." }

Completed(op, invoked, answer, value) ==
  [op |-> op, invoked |-> invoked, answer |-> answer, value |-> value]

Returns(result) ==
  /\ returned' = result
  /\ UNCHANGED << loadingId, aiProtocols, inflight >>
  /\ UNCHANGED << panelVars, excelVars, browserVars, assetVars, storeVars, drafts, uiVars >>

InvokeGenerateTestProtocols(sys, answer) ==
  Returns(Put(Completed("generateTestProtocols", 1, answer, generateTestProtocols(answer)),
              "systemType", sys.type))

InvokeAnalyzeSystemRisk(sys, answer) ==
  Returns(Put(Completed("analyzeSystemRisk", 1, answer, analyzeSystemRisk(answer)),
              "systemType", sys.type))

InvokeAnalyzeSOP(category, answer) ==
  Returns(Put(Completed("analyzeSOP", 1, answer, analyzeSOP(answer)),
              "category", category))

InvokeValidateSpreadsheet(file, answer) ==
  LET cells == ExtractCells(file.sheet)
  IN  Returns(Put(Completed("validateSpreadsheet", Invocations(cells), answer,
                           validateSpreadsheet(file.name, cells, answer)),
                 "fileName", file.name))

InvokeTranslateToPersian(text, answer) ==
  Returns(Put(Completed("translateToPersian", 1, answer, translateToPersian(text, answer)),
              "text", text))

(***************************************************************************)
(* Initial state and specifications                                        *)
(***************************************************************************)
Init ==
  /\ systems = INITIAL_SYSTEMS
  /\ inspectionsStore = << >>
  /\ reportsStore = << >>
  /\ sopsStore = << >>
  /\ drafts = EmptyObject
  /\ calls = EmptyBag
  /\ now = StartDay
  /\ currentUser = NoUser
  /\ mounted = FALSE
  /\ newInspection = BlankInspection
  /\ isAddingInspection = FALSE
  /\ newSOP = BlankSOP
  /\ isUploadingSOP = FALSE
  /\ isAnalyzingSOP = FALSE
  /\ timers = {}
  /\ handlers = << >>
  /\ quiet = [k \in FormKeys |-> 0]
  /\ writes = [k \in FormKeys |-> 0]
  /\ edits = [k \in FormKeys |-> FALSE]
  /\ discarded = {}
  /\ submitted = [k \in FormKeys |-> NoSubmission]
  /\ selectedSystem = NoSelection
  /\ activeTab = "details"
  /\ sops = << >>
  /\ currentExcelFile = Null
  /\ originalExcelData = Null
  /\ excelResult = Null
  /\ isAnalyzingExcel = FALSE
  /\ excelHistory = << >>
  /\ loadingId = NoSelection
  /\ aiProtocols = EmptyObject
  /\ inflight = << >>
  /\ returned = Null
  /\ written = Null
  /\ downloadRequest = Null
  /\ usersStore = Null
  /\ sessionStore = Null
  /\ alerted = ""

NextAssets ==
  \/ \E id \in NewIds, type \in NewTypes : handleAddSystem(id, type)
  \/ \E i \in 1..Len(systems), p \in ProgressInputs :
       handleUpdateProgress(systems[i].id, p)

SpecAssets == Init /\ [][NextAssets]_vars

Waiting == BagCardinality(calls)

NextStore ==
  \/ \E s \in ListedSystems : CallGetInspections(s)
  \/ \E s \in StoreSystems, d \in InspectionDates :
       Waiting < MaxCalls /\ CallSaveInspection(s, d)
  \/ \E s \in ListedSystems : CallGetExcelReports(s)
  \/ \E s \in StoreSystems : Waiting < MaxCalls /\ CallSaveExcelReport(s)
  \/ \E s \in ListedSystems : CallGetSOPs(s)
  \/ \E s \in StoreSystems : Waiting < MaxCalls /\ CallSaveSOP(s)
  \/ \E i \in 1..Len(sopsStore) : Waiting < MaxCalls /\ CallDeleteSOP(sopsStore[i].id)
  \/ \E c \in BagToSet(calls) : ResolveGetInspections(c)
  \/ \E c \in BagToSet(calls) : ResolveSaveInspection(c)
  \/ \E c \in BagToSet(calls) : ResolveGetExcelReports(c)
  \/ \E c \in BagToSet(calls) : ResolveSaveExcelReport(c)
  \/ \E c \in BagToSet(calls) : ResolveGetSOPs(c)
  \/ \E c \in BagToSet(calls) : ResolveSaveSOP(c)
  \/ \E c \in BagToSet(calls) : ResolveDeleteSOP(c)
  \/ Midnight

SpecStore == Init /\ [][NextStore]_vars

\* the asset and the date of the records written at the same time
WrittenSystems == { "5" }
WrittenDates == { 20230815 }

\* writes only, several of them waiting in their delay at the same time and
\* completing in any order
NextWrites ==
  \/ \E s \in WrittenSystems, d \in WrittenDates : CallSaveInspection(s, d)
  \/ \E s \in WrittenSystems : CallSaveExcelReport(s)
  \/ \E s \in WrittenSystems : CallSaveSOP(s)
  \/ \E i \in 1..Len(sopsStore) : CallDeleteSOP(sopsStore[i].id)
  \/ \E c \in BagToSet(calls) : ResolveSaveInspection(c)
  \/ \E c \in BagToSet(calls) : ResolveSaveExcelReport(c)
  \/ \E c \in BagToSet(calls) : ResolveSaveSOP(c)
  \/ \E c \in BagToSet(calls) : ResolveDeleteSOP(c)
  \/ Midnight

SpecWrites == Init /\ [][NextWrites]_vars

\* values typed into the forms
InspectorNames == { "QA" }
FormDates == { 20230815 }
SopTitles == { "SOP-XLS" }
SopContents == { "rules" }

\* the user of the session in which the forms are filled in and submitted
DraftUsers == { "admin-001" }

NextDraft ==
  \/ \E u \in DraftUsers : Login(u)
  \/ \E b \in BOOLEAN : confirmLogout(b)
  \/ MountSystemList
  \/ UnmountSystemList
  \/ ToggleInspectionForm
  \/ \E v \in InspectorNames : EditInspectorName(v)
  \/ \E v \in FormDates : EditInspectionDate(v)
  \/ ToggleSOPForm
  \/ \E v \in SopTitles : EditSOPTitle(v)
  \/ Tick
  \/ \E t \in timers : TimerFires(t)
  \/ \E s \in SelectedSystems :
       /\ newInspection.inspectorName # "" /\ newInspection.date # NoDate
       /\ handleSaveInspection(s)
  \/ \E i \in 1..Len(handlers) : InspectionSaved(i)
  \/ \E s \in SelectedSystems, f \in BOOLEAN : handleSOPUpload(s, f)
  \/ \E i \in 1..Len(handlers) : SOPAnalyzed(i)
  \/ \E i \in 1..Len(handlers) : SOPSaved(i)

SpecDraft == Init /\ [][NextDraft]_vars

\* the inspection form submitted in every state of completion: Save is pressed
\* with the form empty, half filled in and filled in
NextSubmit ==
  \/ \E u \in DraftUsers : Login(u)
  \/ MountSystemList
  \/ UnmountSystemList
  \/ ToggleInspectionForm
  \/ \E v \in InspectorNames : EditInspectorName(v)
  \/ \E v \in FormDates : EditInspectionDate(v)
  \/ Tick
  \/ \E t \in timers : TimerFires(t)
  \/ \E s \in SelectedSystems : handleSaveInspection(s)
  \/ \E i \in 1..Len(handlers) : InspectionSaved(i)

SpecSubmit == Init /\ [][NextSubmit]_vars

NextSession ==
  \/ \E u \in Users : Login(u)
  \/ \E b \in BOOLEAN : confirmLogout(b)
  \/ MountSystemList
  \/ UnmountSystemList
  \/ ToggleInspectionForm
  \/ \E v \in InspectorNames : EditInspectorName(v)
  \/ ToggleSOPForm
  \/ \E v \in SopContents : EditSOPContent(v)
  \/ Tick
  \/ \E t \in timers : TimerFires(t)

SpecSession == Init /\ [][NextSession]_vars

\* the asset whose Excel tab is open
ExcelSystems == { "5" }

\* the first upload of a session, with every sheet and every answer, and
\* uploads of an unreadable file; the download button is rendered with a result
NextSheet ==
  \/ \E f \in Files, s \in ExcelSystems :
       (currentExcelFile = Null \/ f.sheet = Unreadable) /\ handleFileUpload(f, s)
  \/ \E i \in 1..Len(inflight) : ReaderLoaded(i)
  \/ \E i \in 1..Len(inflight) : ReaderFailed(i)
  \/ \E i \in { j \in 1..Len(inflight) : inflight[j].kind = "validateSpreadsheet" } :
       \E a \in ValidationAnswers(inflight[i].formulaCells) : ValidationReturns(i, a)
  \/ \E i \in 1..Len(inflight) : ExcelReportSaved(i)
  \/ \E i \in 1..Len(inflight) : ExcelHistoryLoaded(i)
  \/ excelResult # Null /\ handleDownloadCorrectedExcel

SpecSheet == Init /\ [][NextSheet]_vars

\* the assets the user opens, the one file uploaded in the session and the
\* answers of the service
PanelSystems == { "1", "5" }
PanelFiles == { [name |-> "calc.xlsx", sheet |-> MakeSheet(0, 1, 1, << FormulaCell >>)] }
PanelSOPAnswers == { [outcome |-> "json", json |-> [report |-> "2 limits", rules |-> "pH 5-7"]] }
PanelAnswers == { [outcome |-> "empty"] }

NextPanel ==
  \/ \E s \in PanelSystems : SelectSystem(s)
  \/ \E t \in Tabs : SelectTab(t)
  \/ \E i \in 1..Len(inflight) : SOPsLoaded(i)
  \/ \E c \in SopCategories : SOPSubmitted(c)
  \/ \E i \in 1..Len(inflight), a \in PanelSOPAnswers : SOPUploadAnalyzed(i, a)
  \/ \E i \in 1..Len(inflight) : SOPUploadSaved(i)
  \/ \E f \in PanelFiles :
       /\ selectedSystem # NoSelection /\ activeTab = "excel"
       /\ Len(inflight) < MaxPending
       /\ returned = Null
       /\ \A j \in 1..Len(inflight) : inflight[j].kind \in { "loadSOPs", "analyzeSOP", "saveSOP" }
       /\ handleFileUpload(f, selectedSystem)
  \/ \E i \in 1..Len(inflight) : ReaderLoaded(i)
  \/ \E i \in 1..Len(inflight), a \in PanelAnswers : ValidationReturns(i, a)
  \/ \E i \in 1..Len(inflight) : ExcelReportSaved(i)
  \/ \E i \in 1..Len(inflight) : ExcelHistoryLoaded(i)
  \/ activeTab = "excel" /\ excelResult # Null /\ handleDownloadCorrectedExcel

SpecPanel == Init /\ [][NextPanel]_vars

\* two files that differ in name and in content
UploadedFiles ==
  { [name |-> "calc.xlsx",  sheet |-> MakeSheet(0, 1, 1, << FormulaCell >>)],
    [name |-> "assay.xlsx", sheet |-> MakeSheet(0, 1, 2, << FormulaCell >>)] }

\* the answer of the analyzer: one discrepancy with a suggested formula on the
\* first cell it was sent
UploadAnswers(formulaCells) ==
  { [outcome |-> "json",
     json |-> [discrepancies |->
                 << Discrepancy(formulaCells[1].address, "Hardcoded value",
                                << "=", "S", "U", "M", "(", "A", "1", ")" >>, Undefined) >>,
               summary |-> ""]] }

\* one upload after another on the Excel tab of an asset, the file input being
\* enabled whenever no analysis is in progress; the download button is rendered
\* with a result
NextUploads ==
  \/ \E f \in UploadedFiles, s \in ExcelSystems :
       Len(inflight) < MaxPending /\ handleFileUpload(f, s)
  \/ \E i \in 1..Len(inflight) : ReaderLoaded(i)
  \/ \E i \in { j \in 1..Len(inflight) : inflight[j].kind = "validateSpreadsheet" } :
       \E a \in UploadAnswers(inflight[i].formulaCells) : ValidationReturns(i, a)
  \/ \E i \in 1..Len(inflight) : ExcelReportSaved(i)
  \/ \E i \in 1..Len(inflight) : ExcelHistoryLoaded(i)
  \/ excelResult # Null /\ handleDownloadCorrectedExcel

SpecUploads == Init /\ [][NextUploads]_vars

\* the file uploaded on the Excel tab
TabFiles == { [name |-> "calc.xlsx", sheet |-> MakeSheet(0, 1, 1, << FormulaCell >>)] }

\* the Excel tab with a second GAMP 5 software asset in the list: the user adds
\* the asset before selecting one, moves between the assets and the tabs, and
\* uploads a file on the Excel tab of the selected asset
NextExcelTab ==
  \/ \E id \in NewIds : selectedSystem = NoSelection /\ handleAddSystem(id, SOFTWARE)
  \/ \E sys \in Range(systems) : sys.type \in { SOFTWARE, WATER_SYSTEM } /\ SelectSystem(sys.id)
  \/ \E t \in { "details", "excel" } : SelectTab(t)
  \/ \E i \in 1..Len(inflight) : SOPsLoaded(i)
  \/ \E f \in TabFiles :
       /\ selectedSystem # NoSelection /\ activeTab = "excel"
       /\ Len(inflight) < MaxPending
       /\ handleFileUpload(f, selectedSystem)
  \/ \E i \in 1..Len(inflight) : ReaderLoaded(i)
  \/ \E i \in { j \in 1..Len(inflight) : inflight[j].kind = "validateSpreadsheet" } :
       \E a \in UploadAnswers(inflight[i].formulaCells) : ValidationReturns(i, a)
  \/ \E i \in 1..Len(inflight) : ExcelReportSaved(i)
  \/ \E i \in 1..Len(inflight) : ExcelHistoryLoaded(i)

SpecExcelTab == Init /\ [][NextExcelTab]_vars

\* the files whose cells are validated: one row of one or two cells
GatewayFiles ==
  { [name |-> name, sheet |-> MakeSheet(0, 1, cols, p)] :
      name \in { "calc.xlsx", "assay.xlsx" }, cols \in 1..2, p \in Patterns }

\* every gateway function called with every outcome of its external call
NextGateway ==
  \/ \E sys \in Range(systems), answer \in TextOutcomes :
       InvokeGenerateTestProtocols(sys, answer)
  \/ \E sys \in Range(systems), answer \in TextOutcomes :
       InvokeAnalyzeSystemRisk(sys, answer)
  \/ \E category \in SopCategories, answer \in SOPAnswers :
       InvokeAnalyzeSOP(category, answer)
  \/ \E file \in GatewayFiles :
       \E answer \in ValidationAnswers(FormulaCells(ExtractCells(file.sheet))) :
         InvokeValidateSpreadsheet(file, answer)
  \/ \E text \in Texts, answer \in TextOutcomes :
       InvokeTranslateToPersian(text, answer)

SpecGateway == Init /\ [][NextGateway]_vars

\* the answers of the translation service
PersianOutcomes ==
  { [outcome |-> "rejected"], [outcome |-> "text", text |-> "1. Barresi-ye audit trail"] }

\* the controls of the protocol: the icon of every asset of the list, and for
\* the selected asset the button, the link and the translate button of the
\* details tab, as far as they are rendered and enabled
NextProtocols ==
  \/ \E s \in PanelSystems : SelectSystem(s)
  \/ \E s \in PanelSystems : handleQuickGenerate(s)
  \/ \E s \in PanelSystems :
       /\ selectedSystem = s /\ activeTab = "details"
       /\ loadingId = NoSelection
       /\ handleGenerateProtocols(s)
  \/ \E s \in PanelSystems :
       /\ selectedSystem = s /\ activeTab = "details"
       /\ ProtocolOf(s) = "" /\ loadingId = NoSelection
       /\ handleGenerateProtocols(s)
  \/ \E s \in PanelSystems :
       /\ selectedSystem = s /\ activeTab = "details"
       /\ ProtocolOf(s) # "" /\ loadingId = NoSelection
       /\ handleTranslateProtocol(s)
  \/ \E i \in 1..Len(inflight), answer \in TextOutcomes : ProtocolsGenerated(i, answer)
  \/ \E i \in 1..Len(inflight), answer \in PersianOutcomes : ProtocolTranslated(i, answer)

SpecProtocols == Init /\ [][NextProtocols]_vars

\* ids Date.now() has given: those of the stored SOPs and of the SOPs that
\* a suspended handler is about to save or to delete
UsedSopIds ==
  { sopsStore[k].id : k \in 1..Len(sopsStore) }
    \cup { inflight[j].sop.id : j \in { x \in 1..Len(inflight) : inflight[x].kind = "saveSOP" } }
    \cup { inflight[j].sopId : j \in { x \in 1..Len(inflight) : inflight[x].kind = "deleteSOP" } }

\* one user works on the SOP tab: uploads (each at a time of its own, so
\* that Date.now() gives each SOP an id of its own) and deletions of the
\* SOPs the list shows
NextSops ==
  \/ \E u \in Users : Login(u)
  \/ \E s \in PanelSystems : currentUser # NoUser /\ SelectSystem(s)
  \/ \E t \in { "details", "sops" } : currentUser # NoUser /\ SelectTab(t)
  \/ \E i \in 1..Len(inflight) : SOPsLoaded(i)
  \/ \E c \in SopCategories : currentUser # NoUser /\ SOPSubmitted(c)
  \/ \E i \in 1..Len(inflight), a \in PanelSOPAnswers :
       now \notin UsedSopIds /\ SOPUploadAnalyzed(i, a)
  \/ \E i \in 1..Len(inflight) : SOPUploadSaved(i)
  \/ Midnight
  \/ \E k \in 1..Len(sops), confirmed \in BOOLEAN :
       /\ currentUser # NoUser /\ selectedSystem # NoSelection /\ activeTab = "sops"
       /\ handleDeleteSOP(sops[k].id, confirmed)
  \/ \E i \in 1..Len(inflight) : SOPDeleted(i)

SpecSops == Init /\ [][NextSops]_vars

\* what is typed into the login form, the new-user form and the password dialog
Usernames == { "admin", "analyst" }
Passwords == { "admin", "s3cret" }
NewUsers ==
  [username : Usernames, password : Passwords]
    \cup [username : { "analyst" }, password : { "s3cret" }, name : { "Ana" }, role : { ADMIN }]
UserIds == { "admin-001", UserId(1), UserId(2) }

NextAuth ==
  \/ \E username \in Usernames, password \in Passwords : login(username, password)
  \/ \E i \in 1..Len(inflight) : loginResolved(i)
  \/ logout
  \/ getCurrentUser
  \/ getAllUsers
  \/ \E newUser \in NewUsers : addUser(newUser)
  \/ \E userId \in UserIds, newPassword \in Passwords : changePassword(userId, newPassword)
  \/ Midnight

SpecAuth == Init /\ [][NextAuth]_vars

\* the assets whose inspection log is used, of two categories
InspectedSystems == { "1", "3" }

\* the parameters filled in and the value typed
ParameterInputs == { "conductivity", "diff_pressure" }
ParameterValues == { "7" }

\* the history tab of an asset is open
HistoryOpen == selectedSystem # NoSelection /\ activeTab = "history"

\* the inspection form of the history tab: one user opens the log of an asset,
\* fills in the form, selects another asset, leaves and comes back, and saves
NextParams ==
  \/ \E u \in DraftUsers : Login(u)
  \/ MountSystemList
  \/ UnmountSystemList
  \/ \E s \in InspectedSystems : mounted /\ SelectSystem(s)
  \/ mounted /\ SelectTab("history")
  \/ HistoryOpen /\ ToggleInspectionForm
  \/ \E v \in InspectorNames : HistoryOpen /\ EditInspectorName(v)
  \/ \E v \in FormDates : HistoryOpen /\ EditInspectionDate(v)
  \/ \E sys \in Range(systems), name \in ParameterInputs, v \in ParameterValues :
       /\ HistoryOpen /\ sys.id = selectedSystem
       /\ name \notin DOMAIN newInspection.parameters
       /\ EditParameter(sys, name, v)
  \/ Tick
  \/ \E t \in timers : TimerFires(t)
  \/ HistoryOpen /\ handleSaveInspection(selectedSystem)
  \/ \E i \in 1..Len(handlers) : InspectionSaved(i)

SpecParams == Init /\ [][NextParams]_vars

(***************************************************************************)
(* Properties of the asset list                                            *)
(***************************************************************************)
\* C1: after any sequence of add-asset and update-progress operations, every
\* asset with progress 100 has status Compliant (or a Deviation status), and
\* every asset with progress 0 has status Not Started.
C1_ProgressStatus ==
  \A i \in 1..Len(systems) :
    /\ systems[i].progress = 100 => systems[i].status \in {COMPLIANT, DEVIATION}
    /\ systems[i].progress = 0 => systems[i].status = NOT_STARTED

\* an asset that was in Deviation has been brought to 100, another that was
\* in progress has been brought to 0, next to an added asset
C1_Witness ==
  /\ \E i \in 1..Len(systems) : systems[i].id = "3" /\ systems[i].progress = 100
  /\ \E i \in 1..Len(systems) : systems[i].id = "1" /\ systems[i].progress = 0
  /\ \E i \in 1..Len(systems) : systems[i].id \in NewIds

(***************************************************************************)
(* Properties of the record store                                          *)
(***************************************************************************)
\* C2: round trip: a saved inspection record is in every listing of its
\* asset made afterwards, whatever store operations run before or between.
C2_RoundTrip ==
  [][\A k \in 1..Len(inspectionsStore) :
       inspectionsStore[k] \in
         Range(getInspections(inspectionsStore', inspectionsStore[k].systemId))]_vars

\* a listing is pending for an asset with a saved record, after records of
\* another asset and of another collection were saved too
C2_Witness ==
  /\ \E c \in BagToSet(calls), k \in 1..Len(inspectionsStore) :
       /\ c.op = "getInspections"
       /\ c.systemId = inspectionsStore[k].systemId
       /\ k < Len(inspectionsStore)
       /\ inspectionsStore[Len(inspectionsStore)].systemId # c.systemId
  /\ Len(sopsStore) + Len(reportsStore) > 0

\* result holds exactly the records of stored that belong to systemId
ExactlyOf(result, stored, systemId) ==
  \A x \in Range(stored) \cup Range(result) :
    Count(result, x) = IF x.systemId = systemId THEN Count(stored, x) ELSE 0

\* C3: each listing by asset id returns exactly the stored records of that
\* asset, ordered non-increasing by date (SOPs: by uploadDate).
C3_Listings ==
  \A s \in StoreSystems :
    LET ins == getInspections(inspectionsStore, s)
        rep == getExcelReports(reportsStore, s)
        sop == getSOPs(sopsStore, s)
    IN  /\ ExactlyOf(ins, inspectionsStore, s)
        /\ \A i, j \in 1..Len(ins) : i < j => ins[i].date >= ins[j].date
        /\ ExactlyOf(rep, reportsStore, s)
        /\ \A i, j \in 1..Len(rep) : i < j => rep[i].date >= rep[j].date
        /\ ExactlyOf(sop, sopsStore, s)
        /\ \A i, j \in 1..Len(sop) : i < j => sop[i].uploadDate >= sop[j].uploadDate

\* a listing is pending for an asset whose records are stored earliest
\* first, with a record of another asset stored among them
C3_Witness ==
  \E c \in BagToSet(calls) :
    /\ c.op = "getInspections"
    /\ Len(inspectionsStore) = 3
    /\ inspectionsStore[1].systemId = c.systemId
    /\ inspectionsStore[2].systemId # c.systemId
    /\ inspectionsStore[3].systemId = c.systemId
    /\ inspectionsStore[1].date < inspectionsStore[3].date

IsPrefix(s, t) == Len(s) <= Len(t) /\ \A i \in 1..Len(s) : t[i] = s[i]

\* C4: inspection records and reports are append-only and immutable (a
\* report's retentionDate included); a SOP is never changed in place and
\* leaves the store only when a deleteSOP call for its id completes.
C4_AppendOnly ==
  [][/\ IsPrefix(inspectionsStore, inspectionsStore')
     /\ IsPrefix(reportsStore, reportsStore')
     /\ \/ IsPrefix(sopsStore, sopsStore')
        \/ /\ Range(sopsStore') \subseteq Range(sopsStore)
           /\ Len(sopsStore') < Len(sopsStore)
           /\ \E c \in BagToSet(calls) :
                /\ c.op = "deleteSOP"
                /\ calls' = calls (-) SetToBag({c})
                /\ \A x \in Range(sopsStore) \ Range(sopsStore') :
                     x.id = c.sopId
                /\ \A x \in Range(sopsStore') : x.id # c.sopId]_vars

\* a report stored on an earlier day is still there after a later report was
\* stored and a listing of the reports is pending
C4_Witness ==
  /\ Len(reportsStore) >= 2
  /\ reportsStore[1].retentionDate # setMonthPlus(now, RETENTION_MONTHS)
  /\ \E c \in BagToSet(calls) : c.op = "getExcelReports"

\* C5: every persisted report's retentionDate is the calendar date exactly
\* 6 months after the date stamped on the report by the upload workflow.
C5_RetentionSixMonths ==
  \A i \in 1..Len(reportsStore) :
    reportsStore[i].retentionDate = MonthsAfter(reportsStore[i].date, RETENTION_MONTHS)

(***************************************************************************)
(* Properties of the draft autosave controller                             *)
(***************************************************************************)
\* state and open flag of the form stored under key
FormState(key) == IF key = INSPECTION_FORM THEN newInspection ELSE newSOP
FormOpen(key) == IF key = INSPECTION_FORM THEN isAddingInspection ELSE isUploadingSOP

\* C6: debounce: a burst of edits of a form, each within the debounce window
\* of the one before, gives exactly one saveUserDraft write; the write comes
\* no sooner than the window after the last edit and holds the form state
\* after that edit; an open form left alone for more than the window has
\* been written.
C6_Debounce ==
  /\ [](\A k \in FormKeys :
          /\ writes[k] <= 1
          /\ (mounted /\ FormOpen(k) /\ quiet[k] > DEBOUNCE_MS) => writes[k] = 1)
  /\ [][\A k \in FormKeys :
          writes'[k] = writes[k] + 1 =>
            /\ quiet[k] >= DEBOUNCE_MS
            /\ HasDraft(drafts', currentUser, k)
            /\ getUserDraft(drafts', currentUser, k) = FormState(k)]_vars

\* both fields of the inspection form were entered, the last edit within the
\* window of the one before, and the one write of the burst has been made
C6_Witness ==
  /\ mounted /\ isAddingInspection
  /\ newInspection.inspectorName # "" /\ newInspection.date # NoDate
  /\ edits[INSPECTION_FORM]
  /\ writes[INSPECTION_FORM] = 1
  /\ quiet[INSPECTION_FORM] > DEBOUNCE_MS
  /\ HasDraft(drafts, currentUser, INSPECTION_FORM)
  /\ getUserDraft(drafts, currentUser, INSPECTION_FORM) = newInspection

\* C7: at every moment at most one autosave timer is pending per
\* (user, form key).
C7_OneTimerPerKey ==
  \A u \in Users, k \in FormKeys :
    Cardinality({ t \in timers : t.user = u /\ t.key = k }) <= 1

\* an edit made while the timer of the previous edit was pending has
\* scheduled the timer of the inspection form anew, next to the SOP timer
C7_Witness ==
  /\ edits[INSPECTION_FORM]
  /\ \E t \in timers :
       /\ t.key = INSPECTION_FORM /\ t.open /\ t.left = DEBOUNCE_MS
       /\ t.data.inspectorName # "" /\ t.data.date # NoDate
  /\ \E t \in timers : t.key = SOP_FORM /\ t.open /\ t.left = HalfWindow

\* C8: once a submit handler has finished, and until the user touches the
\* form again, the draft store holds no draft of that user for the form.
C8_DraftClearedOnSubmit ==
  \A k \in FormKeys :
    submitted[k].finished => ~HasDraft(drafts, submitted[k].user, k)

(***************************************************************************)
(* Properties of the session: restore on mount, logout                     *)
(***************************************************************************)
\* C9 as stated: on mount, each form that has a draft takes its state from
\* the draft and opens.
C9_RestoreOpensBothForms ==
  [][(~mounted /\ mounted') =>
       /\ HasDraft(drafts, currentUser, INSPECTION_FORM) =>
            /\ newInspection' = getUserDraft(drafts, currentUser, INSPECTION_FORM)
            /\ isAddingInspection'
       /\ HasDraft(drafts, currentUser, SOP_FORM) =>
            /\ newSOP' = getUserDraft(drafts, currentUser, SOP_FORM)
            /\ isUploadingSOP']_vars

\* C9 (amended): on mount, each form that has a draft takes its state from
\* the draft; the inspection form opens; the SOP form opens exactly when the
\* draft has a non-empty title or a non-empty content text.
C9_RestoreOnMount ==
  [][(~mounted /\ mounted') =>
       /\ HasDraft(drafts, currentUser, INSPECTION_FORM) =>
            /\ newInspection' = getUserDraft(drafts, currentUser, INSPECTION_FORM)
            /\ isAddingInspection'
       /\ HasDraft(drafts, currentUser, SOP_FORM) =>
            LET sopDraft == getUserDraft(drafts, currentUser, SOP_FORM)
            IN  /\ newSOP' = sopDraft
                /\ isUploadingSOP' <=>
                     (sopDraft.title # "" \/ sopDraft.contentText # "")]_vars

\* just mounted with both drafts: the inspection form is open with the
\* entered name, the SOP draft without title and content is in the form
\* state and the SOP form is closed
C9_Witness ==
  /\ mounted
  /\ \A k \in FormKeys : quiet[k] = 0 /\ ~edits[k] /\ HasDraft(drafts, currentUser, k)
  /\ \A t \in timers : t.left = DEBOUNCE_MS
  /\ isAddingInspection
  /\ newInspection = getUserDraft(drafts, currentUser, INSPECTION_FORM)
  /\ newInspection.inspectorName # ""
  /\ newSOP = getUserDraft(drafts, currentUser, SOP_FORM)
  /\ newSOP.title = "" /\ newSOP.contentText = ""
  /\ ~isUploadingSOP

\* C10: a user who logged out with the discard choice has no draft under any
\* form key until the next login, and the logout leaves the drafts of every
\* other user as they were.
C10_LogoutDiscard ==
  /\ [](\A u \in discarded : \A k \in FormKeys : ~HasDraft(drafts, u, k))
  /\ [][discarded' # discarded /\ currentUser' = NoUser =>
          \A u \in Users \ {currentUser} :
            /\ u \in DOMAIN drafts' <=> u \in DOMAIN drafts
            /\ u \in DOMAIN drafts => drafts'[u] = drafts[u]]_vars

\* a user has logged out with the discard choice while another user, now
\* logged in again, keeps the drafts of both forms
C10_Witness ==
  /\ discarded # {}
  /\ currentUser \in Users \ discarded
  /\ \A k \in FormKeys : HasDraft(drafts, currentUser, k)
  /\ mounted /\ isAddingInspection /\ isUploadingSOP

(***************************************************************************)
(* Properties of spreadsheet parsing and validation                        *)
(***************************************************************************)
\* the references inside the populated range of a worksheet
InRange(ws) ==
  { encode_cell(c, r) : r \in ws.ref.s.r .. ws.ref.e.r, c \in ws.ref.s.c .. ws.ref.e.c }

\* the cells of a worksheet that bear a formula: an explicit formula marker,
\* or a string value starting with '='
FormulaBearing(ws) ==
  { a \in DOMAIN ws.cells \cap InRange(ws) :
      \/ ws.cells[a].f # Undefined
      \/ ws.cells[a].t = "s" /\ Len(ws.cells[a].v) > 0 /\ ws.cells[a].v[1] = "=" }

\* the uploads whose sheet has been parsed
Parsed == { i \in 1..Len(inflight) : inflight[i].kind = "validateSpreadsheet" }

\* C11: for a sheet with N formula-bearing cells and M other cells inside the
\* populated range, the extracted cell list has exactly N entries, one per
\* formula-bearing cell with that cell's address, and none for the M others.
C11_ExtractsFormulaCells ==
  \A i \in Parsed :
    LET cells == inflight[i].cells
    IN  /\ Len(cells) = Cardinality(FormulaBearing(inflight[i].sheet))
        /\ { cells[k].address : k \in 1..Len(cells) } = FormulaBearing(inflight[i].sheet)

\* a parsed sheet with a marked formula, a string formula and other cells
C11_Witness ==
  \E i \in Parsed :
    /\ \E k \in 1..Len(inflight[i].cells) :
         inflight[i].sheet.cells[inflight[i].cells[k].address].f # Undefined
    /\ \E k \in 1..Len(inflight[i].cells) :
         inflight[i].sheet.cells[inflight[i].cells[k].address].f = Undefined
    /\ DOMAIN inflight[i].sheet.cells \ FormulaBearing(inflight[i].sheet) # {}
    /\ Len(inflight[i].cells) = 2

\* the row and column of a reference of the populated range
PositionOf(ws, a) ==
  CHOOSE p \in (ws.ref.s.r .. ws.ref.e.r) \X (ws.ref.s.c .. ws.ref.e.c) :
    encode_cell(p[2], p[1]) = a

\* a comes before b in the row-major order of the sheet
RowMajorBefore(ws, a, b) ==
  LET p == PositionOf(ws, a)
      q == PositionOf(ws, b)
  IN  p[1] < q[1] \/ (p[1] = q[1] /\ p[2] < q[2])

\* C12: of N > 50 formula cells exactly 50 are sent to the external analyzer,
\* and they are the first 50 formula cells in row-major order of the sheet;
\* when N <= 50 all N are sent.
C12_FirstFiftySent ==
  \A i \in Parsed :
    LET ws == inflight[i].sheet
        sent == inflight[i].formulaCells
        addresses == { sent[k].address : k \in 1..Len(sent) }
        N == Cardinality(FormulaBearing(ws))
    IN  /\ Len(sent) = IF N > 50 THEN 50 ELSE N
        /\ Cardinality(addresses) = Len(sent)
        /\ addresses \subseteq FormulaBearing(ws)
        /\ \A a \in addresses, b \in FormulaBearing(ws) \ addresses :
             RowMajorBefore(ws, a, b)
        /\ \A k \in 1..(Len(sent) - 1) :
             RowMajorBefore(ws, sent[k].address, sent[k + 1].address)

\* a sheet with more than 50 formula cells has been handed to the analyzer
C12_Witness ==
  \E i \in Parsed :
    /\ Cardinality(FormulaBearing(inflight[i].sheet)) > 50
    /\ Len(inflight[i].formulaCells) = 50
    /\ inflight[i].invoked = 1

\* the validateSpreadsheet call that returned last
Validated == returned # Null /\ returned.op = "validateSpreadsheet"

ResultsShownOrKept ==
  (IF excelResult = Null THEN {} ELSE { excelResult })
    \cup { c.report : c \in { x \in BagToSet(calls) : x.op = "saveExcelReport" } }
    \cup { reportsStore[k] : k \in 1..Len(reportsStore) }

\* C14: for every analysis result that is displayed or persisted, on every
\* return path of validateSpreadsheet (no formulas, successful analysis, failed
\* analysis), isValid is true if and only if the discrepancy list is empty.
C14_ValidIffNoDiscrepancies ==
  \A r \in ResultsShownOrKept : r.isValid <=> (r.discrepancies = << >>)

\* a successful analysis that found discrepancies is on display and stored
C14_Witness ==
  /\ excelResult # Null
  /\ excelResult.totalFormulas > 0
  /\ ~excelResult.isValid
  /\ \E k \in 1..Len(reportsStore) :
       /\ reportsStore[k].discrepancies = excelResult.discrepancies
       /\ Len(reportsStore[k].discrepancies) = 2

(***************************************************************************)
(* Properties of the SOP context of a validation                           *)
(***************************************************************************)
\* the active Spreadsheet Validation SOPs of an asset among stored SOPs
ActiveSOPsOf(stored, sysId) ==
  { sop \in Range(stored) :
      sop.systemId = sysId /\ sop.isActive /\ sop.category = "Spreadsheet Validation" }

\* C15: for every upload on asset A, if the store holds an active SOP of
\* category 'Spreadsheet Validation' belonging to A at upload time, that SOP's
\* extracted-rules text is the context passed to validation and its title is
\* recorded as referencedSopTitle; otherwise no context is passed and no
\* reference is recorded.
C15_ContextFromStore ==
  Validated =>
    LET active == ActiveSOPsOf(returned.stored, returned.sysId)
    IN  IF active # {}
          THEN /\ "referencedSopTitle" \in DOMAIN returned.analysis
               /\ \E sop \in active :
                    /\ returned.sopContext = sop.extractedRules
                    /\ returned.analysis.referencedSopTitle = sop.title
          ELSE /\ "referencedSopTitle" \notin DOMAIN returned.analysis
               /\ returned.sopContext = Undefined

(***************************************************************************)
(* Properties of corrected-file regeneration                               *)
(***************************************************************************)
\* a discrepancy carries a suggested formula / a suggested value
HasFormula(d) == d.suggestedFormula # Undefined /\ d.suggestedFormula # << >>
HasValue(d) == d.suggestedValue # Undefined /\ d.suggestedValue # << >>

\* the text of a formula as a cell holds it: without the '=' that introduces it
FormulaText(str) == IF Len(str) > 0 /\ str[1] = "=" THEN Tail(str) ELSE str

\* the annotations of a cell that cite a reason
Citing(cell, reason) ==
  { k \in 1..Len(cell.c) : cell.c[k] = [t |-> "MDPC Correction: " \o reason] }

\* the discrepancies of the result that name a cell of the original sheet and
\* are the last to name it
Decisive(ds) ==
  { k \in 1..Len(ds) :
      /\ ds[k].address \in DOMAIN originalExcelData.cells
      /\ \A j \in (k + 1)..Len(ds) : ds[j].address # ds[k].address }

\* C16: in the regenerated file, for each discrepancy, if it carries a
\* suggested formula the target cell ends with that formula and no literal
\* value; else if it carries a suggested value the cell ends with that literal
\* value and no formula; in both cases exactly one annotation citing the
\* discrepancy's reason is appended to the cell's comments.
C16_CorrectionsApplied ==
  (written # Null /\ originalExcelData # Unreadable) =>
    LET ds == excelResult.discrepancies
    IN  \A k \in Decisive(ds) :
          LET d == ds[k]
              before == originalExcelData.cells[d.address]
              after == written.sheet.cells[d.address]
          IN  /\ HasFormula(d) =>
                   after.f = FormulaText(d.suggestedFormula) /\ after.v = Undefined
              /\ (~HasFormula(d) /\ HasValue(d)) =>
                   after.v = d.suggestedValue /\ after.f = Undefined
              /\ (HasFormula(d) \/ HasValue(d)) =>
                   Cardinality(Citing(after, d.reason)) =
                     Cardinality(Citing(before, d.reason)) + 1

\* the discrepancies that carry a suggestion
Suggesting(ds) == { k \in 1..Len(ds) : HasFormula(ds[k]) \/ HasValue(ds[k]) }

\* C17: regeneration leaves untouched every cell that is not the address of a
\* discrepancy carrying a suggestion: cells named by a discrepancy with neither
\* suggestedFormula nor suggestedValue, and cells named by no discrepancy, have
\* the same formula, value and comments in the regenerated file as in the
\* original.
C17_OtherCellsUntouched ==
  (written # Null /\ originalExcelData # Unreadable) =>
    LET ds == excelResult.discrepancies
    IN  /\ DOMAIN written.sheet.cells = DOMAIN originalExcelData.cells
        /\ \A a \in DOMAIN originalExcelData.cells :
             (\A k \in Suggesting(ds) : ds[k].address # a) =>
               written.sheet.cells[a] = originalExcelData.cells[a]

\* a file was regenerated from a result with a discrepancy without suggestion
\* on a cell of the sheet, next to cells no discrepancy names
C17_Witness ==
  /\ written # Null /\ originalExcelData # Unreadable
  /\ \E k \in 1..Len(excelResult.discrepancies) :
       /\ k \notin Suggesting(excelResult.discrepancies)
       /\ excelResult.discrepancies[k].address \in DOMAIN originalExcelData.cells
  /\ \E a \in DOMAIN originalExcelData.cells :
       \A k \in 1..Len(excelResult.discrepancies) :
         excelResult.discrepancies[k].address # a

\* C18: when a corrected file is requested while the original binary, the
\* analysis result or the originating file handle is missing, no file is
\* produced and an error message is shown to the user.
C18_MissingInputReported ==
  (downloadRequest # Null /\ downloadRequest.missing) =>
     (~downloadRequest.produced /\ downloadRequest.message # "")


(***************************************************************************)
(* Properties of the gateway                                               *)
(***************************************************************************)
\* C19: a gateway call whose external call failed returns the fallback of its
\* operation: the literal error string for generate-protocols and analyze-risk;
\* status Non-Compliant, the service-error report and empty rules for the SOP
\* analysis; exactly one synthetic High-severity discrepancy and isValid false
\* for the spreadsheet validation; the input text for the translation.
C19_FailedCallFallback ==
  (returned # Null /\ returned.invoked = 1 /\ returned.answer.outcome = "rejected") =>
    CASE returned.op = "generateTestProtocols" ->
           returned.value = "Error generating protocols. Please check your API key."
      [] returned.op = "analyzeSystemRisk" ->
           returned.value = "Error analyzing risk."
      [] returned.op = "analyzeSOP" ->
           /\ returned.value.status = "Non-Compliant"
           /\ returned.value.report = "AI Service Error during SOP analysis."
           /\ returned.value.rules = ""
      [] returned.op = "validateSpreadsheet" ->
           /\ Len(returned.value.discrepancies) = 1
           /\ returned.value.discrepancies[1].severity = "High"
           /\ returned.value.discrepancies[1].address = "System"
           /\ returned.value.isValid = FALSE
      [] returned.op = "translateToPersian" ->
           returned.value = returned.text

C19_Witness ==
  /\ returned # Null /\ returned.invoked = 1 /\ returned.answer.outcome = "rejected"
  /\ returned.op = "translateToPersian"
  /\ returned.value = "1. Verify audit trail"


(***************************************************************************)
(* Properties of protocol generation                                       *)
(***************************************************************************)
\* the suspended generate and translate calls
ProtocolCalls ==
  { i \in 1..Len(inflight) :
      inflight[i].kind \in { "generateTestProtocols", "translateToPersian" } }

\* C20: at most one protocol-generation or translation call per asset is in
\* flight at any time, whatever control generation is triggered through.
C20_OneCallPerAsset ==
  \A i, j \in ProtocolCalls : inflight[i].sysId = inflight[j].sysId => i = j


(***************************************************************************)
(* Properties of SOP deletion                                              *)
(***************************************************************************)
\* the deletions a handler has asked the store for and that are in their delay
PendingDeletes(handlersInFlight) ==
  { j \in 1..Len(handlersInFlight) : handlersInFlight[j].kind = "deleteSOP" }

\* the list without the records whose id is sopId
Without(list, sopId) == SelectSeq(list, LAMBDA r : r.id # sopId)

\* C21: a delete-SOP attempt of a user who is not Admin shows the message and
\* changes neither the stored SOPs nor the displayed list, and starts no
\* deletion; the stored SOPs lose a record only through the deletion an Admin
\* confirmed, which removes exactly the SOP with the given id.
C21_OnlyAdminDeletes ==
  [][ /\ RoleOf(currentUser) # ADMIN =>
           Cardinality(PendingDeletes(inflight')) <= Cardinality(PendingDeletes(inflight))
      /\ alerted' # alerted =>
           /\ alerted' = "Only Admins can delete SOPs."
           /\ RoleOf(currentUser) # ADMIN
           /\ UNCHANGED << sopsStore, sops, inflight >>
      /\ Len(sopsStore') < Len(sopsStore) =>
           \E i \in PendingDeletes(inflight) :
             /\ RoleOf(currentUser) = ADMIN
             /\ sopsStore' = Without(sopsStore, inflight[i].sopId)
             /\ Len(sopsStore') = Len(sopsStore) - 1
             /\ inflight'[i].kind # "deleteSOP" ]_vars

C21_Witness ==
  /\ RoleOf(currentUser) # ADMIN /\ currentUser # NoUser
  /\ alerted = "Only Admins can delete SOPs."
  /\ sops # << >> /\ sopsStore # << >>
  /\ PendingDeletes(inflight) = {}


(***************************************************************************)
(* Properties of the inspection form                                       *)
(***************************************************************************)
\* the inspection records that are stored or on their way to the store
SubmittedInspections(stored, suspended) ==
  Range(stored) \cup
    { suspended[i].record :
        i \in { x \in 1..Len(suspended) : suspended[x].kind = "saveInspection" } }

\* C22: a submission of the inspection form without inspector name or without
\* date is blocked: the step that shows the message appends no record and
\* starts no save, leaves the form open with its state, and leaves the draft;
\* no record without name or date is ever stored or sent to the store.
C22_IncompleteSubmitBlocked ==
  [][ /\ alerted' # alerted =>
           /\ alerted' = "Please fill in Date and Inspector Name"
           /\ newInspection.inspectorName = "" \/ newInspection.date = NoDate
           /\ isAddingInspection'
           /\ UNCHANGED << inspectionsStore, handlers, newInspection,
                           isAddingInspection, drafts, timers >>
      /\ \A r \in SubmittedInspections(inspectionsStore', handlers') :
           r.inspectorName # "" /\ r.date # NoDate ]_vars

C22_Witness ==
  /\ alerted = "Please fill in Date and Inspector Name"
  /\ isAddingInspection
  /\ newInspection.inspectorName # "" /\ newInspection.date = NoDate
  /\ HasDraft(drafts, currentUser, INSPECTION_FORM)
  /\ inspectionsStore = << >> /\ handlers = << >>


(***************************************************************************)
(* Properties of the authentication service                                *)
(***************************************************************************)
\* the users a value returned to the display layer holds
ReturnedUsers ==
  IF returned = Null THEN {}
  ELSE IF returned.op \in { "login", "getCurrentUser" }
         THEN IF returned.value = Null THEN {} ELSE { returned.value }
  ELSE IF returned.op = "getAllUsers" THEN Range(returned.value)
  ELSE {}

\* the passwords the store holds
Credentials == { u.password : u \in Range(ParsedUsers(usersStore)) }

\* C23: no user that login, getCurrentUser or getAllUsers returns, and no
\* stored session, has the password property, after any sequence of login,
\* logout, addUser and changePassword.
C23_NoCredentialReturned ==
  /\ \A u \in ReturnedUsers : "password" \notin DOMAIN u
  /\ sessionStore # Null => "password" \notin DOMAIN sessionStore

C23_Witness ==
  /\ returned # Null /\ returned.op = "getAllUsers"
  /\ Len(returned.value) = 2
  /\ sessionStore # Null /\ sessionStore.username = "analyst"
  /\ "s3cret" \in Credentials


(***************************************************************************)
(* Properties of the upload workflow                                       *)
(***************************************************************************)
\* the suspended upload handlers that are at the given step
AtStep(handlersInFlight, kind) ==
  { j \in 1..Len(handlersInFlight) : handlersInFlight[j].kind = kind }

\* what validation and the stamps of the handler put on a report
StampedFields == { "fileName", "totalFormulas", "discrepancies", "isValid", "summary",
                   "systemId", "date" }

\* C24: the steps of one upload run in the order parse, validate, stamp,
\* persist, refresh listing.  A handler waits for the store only with a
\* validated and stamped report, which is the result shown; a report is
\* appended to the store only by such a handler, with the retention date added
\* and the other stamps as shown; the result shown, while it is that of the
\* upload, carries the retention date too; and a handler reloads the listing
\* only with its report in the store.
C24_WorkflowInSequence ==
  [][ /\ \A i \in AtStep(inflight', "saveExcelReport") \ AtStep(inflight, "saveExcelReport") :
           /\ i \in AtStep(inflight, "validateSpreadsheet")
           /\ StampedFields \subseteq DOMAIN inflight'[i].report
           /\ inflight'[i].report.systemId = inflight[i].sysId
           /\ inflight'[i].report.date = now
           /\ excelResult' = inflight'[i].report
      /\ reportsStore' # reportsStore =>
           \E i \in AtStep(inflight, "saveExcelReport") :
             LET report == reportsStore'[Len(reportsStore')]
             IN  /\ reportsStore' = Append(reportsStore, report)
                 /\ Omit(report, "retentionDate") = Omit(inflight[i].report, "retentionDate")
                 /\ "retentionDate" \in DOMAIN report
                 /\ excelResult = inflight[i].report => excelResult' = report
                 /\ inflight'[i].kind = "loadExcelHistory"
      /\ \A i \in AtStep(inflight', "loadExcelHistory") :
           "report" \in DOMAIN inflight'[i] =>
              /\ inflight'[i].report \in Range(reportsStore')
              /\ i \in AtStep(inflight, "saveExcelReport") \cup AtStep(inflight, "loadExcelHistory")
      /\ excelHistory' # excelHistory =>
           \E i \in AtStep(inflight, "loadExcelHistory") :
             /\ inflight[i].report \in Range(excelHistory')
             /\ excelHistory' = getExcelReports(reportsStore, inflight[i].sysId) ]_vars

C24_Witness ==
  /\ excelHistory # << >>
  /\ excelResult # Null
  /\ excelResult \in Range(excelHistory)
  /\ "retentionDate" \in DOMAIN excelResult
  /\ inflight = << >>


(***************************************************************************)
(* Properties of the first autosave                                        *)
(***************************************************************************)
\* the state of the form of key on which no field was changed: its initial
\* value, which is also its value after a submit
BlankForm(key) == IF key = INSPECTION_FORM THEN BlankInspection ELSE BlankSOP

\* C25: autosave starts with the first field change: no step writes to the
\* draft store, for any user and form key, the state of a form on which no
\* field was changed since it was opened or last submitted.
C25_NoDraftBeforeFirstChange ==
  [][ \A u \in Users, key \in FormKeys :
        ( /\ HasDraft(drafts', u, key)
          /\ ~HasDraft(drafts, u, key) \/ writes'[key] # writes[key] )
          => getUserDraft(drafts', u, key) # BlankForm(key) ]_vars


(***************************************************************************)
(* Properties of the applied formula text                                  *)
(***************************************************************************)
\* the positions of '=' in a text
EqualsSigns(text) == { j \in 1..Len(text) : text[j] = "=" }

\* C26: the formula stored in the cell of a discrepancy with a suggested
\* formula is the suggested text with only a single leading '=' removed if
\* present: a text that starts with '=' is stored from its second character
\* on, any other text is stored whole, with every '=' inside it.
C26_OnlyLeadingEqualsRemoved ==
  (written # Null /\ originalExcelData # Unreadable) =>
    \A k \in Decisive(excelResult.discrepancies) :
      LET text == excelResult.discrepancies[k].suggestedFormula
          stored == written.sheet.cells[excelResult.discrepancies[k].address].f
      IN  HasFormula(excelResult.discrepancies[k]) =>
            IF 1 \in EqualsSigns(text)
              THEN /\ stored = SubSeq(text, 2, Len(text))
                   /\ Cardinality(EqualsSigns(stored)) = Cardinality(EqualsSigns(text)) - 1
              ELSE /\ stored = text
                   /\ Cardinality(EqualsSigns(stored)) = Cardinality(EqualsSigns(text))


(***************************************************************************)
(* Properties of the parameters of inspection records                      *)
(***************************************************************************)
\* C27: every parameter name of a persisted inspection record is a name that
\* SYSTEM_PARAMS gives for the category of the asset the record is saved for.
C27_ParametersOfOwnCategory ==
  \A k \in 1..Len(inspectionsStore) :
    "parameters" \in DOMAIN inspectionsStore[k] =>
      DOMAIN inspectionsStore[k].parameters
        \subseteq SYSTEM_PARAMS[TypeOf(inspectionsStore[k].systemId)]


(***************************************************************************)
(* Properties of concurrent writes                                         *)
(***************************************************************************)
\* the calls of the given methods that are waiting in their delay
Pending(ops) == { c \in BagToSet(calls) : c.op \in ops }

\* C28: no write is lost, whatever the order in which writes issued together
\* complete.  The step that completes a save leaves its collection with every
\* record it held, in place, and the saved record after them; the step that
\* completes a deleteSOP leaves the SOP list with exactly the SOPs of other
\* ids, in order; and a collection changes in no other step.
C28_NoLostUpdate ==
  [][ /\ \A c \in Pending({"saveInspection"}) :
           calls' = calls (-) SetToBag({c}) =>
             /\ Len(inspectionsStore') = Len(inspectionsStore) + 1
             /\ SubSeq(inspectionsStore', 1, Len(inspectionsStore)) = inspectionsStore
             /\ inspectionsStore'[Len(inspectionsStore')] = c.record
      /\ \A c \in Pending({"saveExcelReport"}) :
           calls' = calls (-) SetToBag({c}) =>
             /\ Len(reportsStore') = Len(reportsStore) + 1
             /\ SubSeq(reportsStore', 1, Len(reportsStore)) = reportsStore
             /\ Omit(reportsStore'[Len(reportsStore')], "retentionDate") = c.report
      /\ \A c \in Pending({"saveSOP"}) :
           calls' = calls (-) SetToBag({c}) =>
             /\ Len(sopsStore') = Len(sopsStore) + 1
             /\ SubSeq(sopsStore', 1, Len(sopsStore)) = sopsStore
             /\ sopsStore'[Len(sopsStore')] = c.sop
      /\ \A c \in Pending({"deleteSOP"}) :
           calls' = calls (-) SetToBag({c}) =>
             sopsStore' = SelectSeq(sopsStore, LAMBDA sop : sop.id # c.sopId)
      /\ \/ \E c \in Pending({"saveInspection", "saveExcelReport", "saveSOP", "deleteSOP"}) :
                calls' = calls (-) SetToBag({c})
         \/ << inspectionsStore, reportsStore, sopsStore >>' =
              << inspectionsStore, reportsStore, sopsStore >> ]_vars

\* a saveSOP and a deleteSOP of a stored SOP are waiting together, after a
\* saveSOP that was issued while another write waited has completed
C28_Witness ==
  /\ Pending({"saveSOP"}) # {}
  /\ \E c \in Pending({"deleteSOP"}) : \E k \in 1..Len(sopsStore) : sopsStore[k].id = c.sopId
  /\ Len(sopsStore) = 2


(***************************************************************************)
(* Properties of the inputs of a corrected file                            *)
(***************************************************************************)
\* C29: whenever a corrected file is generated, the binary it is rebuilt
\* from, the analysis whose corrections it applies and the file whose name it
\* is written under come from the same upload.
C29_InputsOfOneUpload ==
  [][ (written' # written \/ (downloadRequest' # downloadRequest /\ downloadRequest'.produced)) =>
        /\ originalExcelData = currentExcelFile.sheet
        /\ excelResult.fileName = currentExcelFile.name ]_vars


(***************************************************************************)
(* Properties of the result shown on the Excel tab                         *)
(***************************************************************************)
\* C30: the analysis result the Excel tab shows belongs to the selected
\* asset: whenever the tab is open with a result, the result is stamped with
\* the id of the asset that is selected.
C30_ResultOfSelectedAsset ==
  (selectedSystem # NoSelection /\ activeTab = "excel" /\ excelResult # Null) =>
    excelResult.systemId = selectedSystem

============================================================================
